---- MODULE Spec2Model ----
(***************************************************************************)
(* Model of recc's RPC retry driver (grpc_retry, src/src/grpcretry.cpp)    *)
(* and of the streaming Execute client with SIGINT cancellation            *)
(* (RemoteExecutionClient, src/src/remoteexecutionclient.cpp).             *)
(*                                                                         *)
(* Two specifications share the retry driver's actions:                    *)
(*   SpecRetry    grpc_retry around a unary RPC whose status is arbitrary  *)
(*   SpecExecute  execute_action: grpc_retry around the Execute lambda,    *)
(*                with the reader thread, the polling main thread and the  *)
(*                SIGINT handler interleaved                               *)
(***************************************************************************)
EXTENDS Integers, Sequences, FiniteSets, TLC

(***************************************************************************)
(* Bounds of the model.                                                    *)
(***************************************************************************)
\* Largest RECC_RETRY_LIMIT explored around a unary RPC.
MaxRetryLimit == 2

\* Largest RECC_RETRY_LIMIT explored around the Execute stream.
MaxExecRetryLimit == 1

\* Values of RECC_RETRY_DELAY explored (milliseconds).
RetryDelays == {10, 100}

(***************************************************************************)
(* gRPC statuses.  A status is its numeric code and its message.           *)
(***************************************************************************)
\* grpc::StatusCode::UNAUTHENTICATED, as the driver names it.
NO_AUTH == 16

\* The codes the wrapped RPC returns here: OK (0), INVALID_ARGUMENT (3),
\* UNAVAILABLE (14) and UNAUTHENTICATED (16).
StatusCodes == {0, 3, 14, NO_AUTH}

\* The error messages a failing RPC carries here.
StatusMessages == {"m1", "m2"}

\* status.ok()
StatusOk(st) == st.code = 0

OkStatus == [code |-> 0, msg |-> ""]

\* What an invocation of a unary RPC can return.
Statuses ==
    {OkStatus} \cup
    {[code |-> c, msg |-> m] : c \in StatusCodes \ {0}, m \in StatusMessages}

\* What Finish() of an Execute stream, or CancelOperation, can return.
StreamStatuses ==
    {OkStatus, [code |-> 14, msg |-> "m1"], [code |-> NO_AUTH, msg |-> "m2"]}

(***************************************************************************)
(* std::to_string on a non-negative int.                                   *)
(***************************************************************************)
Digit(d) ==
    CASE d = 0 -> "0" [] d = 1 -> "1" [] d = 2 -> "2" [] d = 3 -> "3"
      [] d = 4 -> "4" [] d = 5 -> "5" [] d = 6 -> "6" [] d = 7 -> "7"
      [] d = 8 -> "8" [] d = 9 -> "9"

RECURSIVE to_string(_)
to_string(n) ==
    IF n < 10 THEN Digit(n) ELSE to_string(n \div 10) \o Digit(n % 10)

(***************************************************************************)
(* google.longrunning.Operation, as far as the client reads it.            *)
(*   kind: which of the result oneof is set ("none", "error", "response"   *)
(*         holding an ExecuteResponse, "other" holding another message)    *)
(*   code: the error's code, or the ExecuteResponse's status code          *)
(***************************************************************************)
\* std::make_shared<Operation>()
EmptyOperation ==
    [name |-> "", done |-> FALSE, kind |-> "none", code |-> 0, exit_code |-> 0]

\* The Operations the server may send on an Execute stream.
Operations ==
    {[name |-> n, done |-> FALSE, kind |-> "none", code |-> 0, exit_code |-> 0] :
        n \in {"", "op-42"}}
    \cup
    {[name |-> "op-42", done |-> TRUE, kind |-> k, code |-> 0, exit_code |-> 0] :
        k \in {"none", "other"}}
    \cup
    {[name |-> "op-42", done |-> TRUE, kind |-> "error", code |-> c, exit_code |-> 0] :
        c \in {0, 3}}
    \cup
    {[name |-> "op-42", done |-> TRUE, kind |-> "response", code |-> c, exit_code |-> e] :
        c \in {0, 3}, e \in {0, 1, 255}}

NoResult == [present |-> FALSE, exit_code |-> 0]

VARIABLES
    mode,               \* "unary": a unary RPC is wrapped; "execute": the Execute lambda
    RECC_RETRY_LIMIT,   \* env.h: maximum number of retries
    RECC_RETRY_DELAY,   \* env.h: base delay between retries, ms
    d_authSession,      \* GrpcContext: TRUE iff an AuthSession was set
    tokenRefreshes,     \* calls of AuthSession::refresh_current_token so far
    pc,                 \* position of the main thread
    retry,              \* grpc_retry: "running", "returned" or "thrown"
    n_attempts,         \* grpc_retry local
    refreshed,          \* grpc_retry local
    status,             \* grpc_retry local: status of the last invocation
    invocations,        \* number of calls of grpc_invocation so far
    statusLog,          \* statuses returned by the invocations, in order
    sleeps,             \* the delays slept so far, in order
    contexts,           \* number of ClientContexts created so far
    context,            \* the ClientContext of the current invocation
    operation,          \* *operation_ptr
    receivedAny,        \* TRUE iff Read has delivered an Operation on this stream
    loggedName,         \* read_operation_async: the name it logged, "" while
                        \* logged is false
    reader,             \* reader thread: "idle", "reading", "writing", "finished"
    pending,            \* the message Read is deserialising into *operation_ptr
    fstatus,            \* read_operation local: result of future.wait_for
    s_sigint_received,  \* RemoteExecutionClient::s_sigint_received
    sigintAt,           \* where the main thread was when SIGINT first arrived
    nameChecked,        \* the name read by `if (!operation_ptr->name().empty())`
    cancelCalls,        \* CancelOperation RPCs issued: name, context, status
    exitCode,           \* process exit code, -1 while running
    errorMessage,       \* what() of the exception thrown, "" if none
    actionResult,       \* what execute_action returned
    executeRequest,     \* execute_action local: the ExecuteRequest it built
    executeCalls,       \* Execute RPCs issued, in order: request, context, and
                        \* whether a done Operation of an earlier stream was dropped
    cacheCall,          \* fetch_from_action_cache: its arguments and outcome
    RECC_PROJECT_ROOT,  \* env.h: the project root, a path
    arg_path,           \* FileUtils: the path argument of the call
    arg_other,          \* FileUtils: the second path argument (cwd or prefix)
    arg_n,              \* FileUtils: the int argument of last_n_segments
    called,             \* FileUtils: the function applied, "none" before the call
    returned,           \* FileUtils: what the call returned
    RECC_SERVER,        \* env.h: the URI of the server, "" until set
    RECC_CAS_SERVER,    \* env.h: the URI of the CAS server, "" until set
    configFiles,        \* the files at RECC_CONFIG_LOCATIONS, least important first
    environ,            \* the environment handed to parse_config_variables
    filesParsed,        \* find_and_parse_config_files: number of files parsed so far
    TMPDIR,             \* env.h: the location of temporary files
    d_name,             \* TemporaryDirectory::d_name, "" before construction
    log,                \* what has been logged, in order
    disk,               \* the file system: its directories and its files
    diskBefore,         \* the file system when write_files_to_disk was called
    d_outputFiles,      \* ActionResult::d_outputFiles, in the map's order
    root,               \* write_files_to_disk: the root argument
    fileIter,           \* write_files_to_disk: entries of d_outputFiles done
    blob,               \* write_files_to_disk: what fetch_blob returned
    fileOps             \* the fetches, writes and chmods made, in order

vars ==
    <<mode, RECC_RETRY_LIMIT, RECC_RETRY_DELAY, d_authSession, tokenRefreshes,
      pc, retry, n_attempts, refreshed, status, invocations, statusLog, sleeps,
      contexts, context, operation, receivedAny, loggedName, reader, pending,
      fstatus,
      s_sigint_received, sigintAt, nameChecked, cancelCalls, exitCode,
      errorMessage, actionResult, executeRequest, executeCalls, cacheCall,
      RECC_PROJECT_ROOT, arg_path, arg_other, arg_n, called, returned,
      RECC_SERVER, RECC_CAS_SERVER, configFiles, environ, filesParsed,
      TMPDIR, d_name, log, disk, diskBefore, d_outputFiles, root, fileIter, blob,
      fileOps>>

envVars == <<RECC_SERVER, RECC_CAS_SERVER, configFiles, environ, filesParsed>>

fileVars ==
    <<TMPDIR, d_name, log, disk, diskBefore, d_outputFiles, root, fileIter, blob,
      fileOps>>

configVars ==
    <<mode, RECC_RETRY_LIMIT, RECC_RETRY_DELAY, d_authSession, executeRequest,
      envVars, fileVars>>

pathVars == <<RECC_PROJECT_ROOT, arg_path, arg_other, arg_n, called, returned>>

retryVars == <<retry, n_attempts, refreshed, status, invocations, statusLog, sleeps>>

streamVars == <<operation, receivedAny, loggedName, reader, pending>>

cancelVars == <<nameChecked, cancelCalls, exitCode>>

NoContext == [id |-> 0, credentials |-> FALSE]

\* No ExecuteRequest: the call is not execute_action.
NoRequest == [instance_name |-> "", action_digest |-> "", skip_cache_lookup |-> FALSE]

\* The ExecuteRequests execute_action builds from its arguments actionDigest
\* and skipCache and from the client's d_instanceName.
ExecuteRequests ==
    {[instance_name |-> "main", action_digest |-> "digest-1", skip_cache_lookup |-> skipCache] :
        skipCache \in BOOLEAN}

\* No call of fetch_from_action_cache.
NoCacheCall ==
    [result_given |-> FALSE, before |-> NoResult, result |-> NoResult,
     proto |-> NoResult, returned |-> "none"]

\* No configuration has been parsed: the globals hold their initial "".
InitNoConfig ==
    /\ RECC_SERVER = ""
    /\ RECC_CAS_SERVER = ""
    /\ configFiles = <<>>
    /\ environ = <<>>
    /\ filesParsed = 0

\* No file system in view: no TemporaryDirectory and no write_files_to_disk.
NoDisk == [dirs |-> {}, files |-> <<>>]

InitNoFiles ==
    /\ TMPDIR = ""
    /\ d_name = ""
    /\ log = <<>>
    /\ disk = NoDisk
    /\ diskBefore = NoDisk
    /\ d_outputFiles = <<>>
    /\ root = <<>>
    /\ fileIter = 0
    /\ blob = ""
    /\ fileOps = <<>>

\* No call of a FileUtils function.
InitNoPath ==
    /\ RECC_PROJECT_ROOT = <<>>
    /\ arg_path = <<>>
    /\ arg_other = <<>>
    /\ arg_n = 0
    /\ called = "none"
    /\ returned = <<>>

(***************************************************************************)
(* Initial states: grpc_retry has just been entered (n_attempts = 0,       *)
(* refreshed = false); in "execute" mode execute_action has built its      *)
(* request and installed the SIGINT handler, and the flag is false.        *)
(***************************************************************************)
InitLocals ==
    /\ tokenRefreshes = 0
    /\ pc = "invoke"
    /\ retry = "running"
    /\ n_attempts = 0
    /\ refreshed = FALSE
    /\ status = OkStatus
    /\ invocations = 0
    /\ statusLog = <<>>
    /\ sleeps = <<>>
    /\ contexts = 0
    /\ context = NoContext
    /\ operation = EmptyOperation
    /\ receivedAny = FALSE
    /\ loggedName = ""
    /\ reader = "idle"
    /\ pending = EmptyOperation
    /\ fstatus = "timeout"
    /\ s_sigint_received = FALSE
    /\ sigintAt = "none"
    /\ nameChecked = ""
    /\ cancelCalls = <<>>
    /\ exitCode = -1
    /\ errorMessage = ""
    /\ actionResult = NoResult
    /\ executeCalls = <<>>

InitRetry ==
    /\ mode = "unary"
    /\ RECC_RETRY_LIMIT \in 0..MaxRetryLimit
    /\ RECC_RETRY_DELAY \in RetryDelays
    /\ d_authSession \in BOOLEAN
    /\ executeRequest = NoRequest
    /\ cacheCall = NoCacheCall
    /\ InitLocals
    /\ InitNoFiles
    /\ InitNoConfig
    /\ InitNoPath

InitExecute ==
    /\ mode = "execute"
    /\ RECC_RETRY_LIMIT \in 0..MaxExecRetryLimit
    /\ RECC_RETRY_DELAY = 100
    /\ d_authSession \in BOOLEAN
    /\ executeRequest \in ExecuteRequests
    /\ cacheCall = NoCacheCall
    /\ InitLocals
    /\ InitNoFiles
    /\ InitNoConfig
    /\ InitNoPath

(***************************************************************************)
(* GrpcContext                                                             *)
(***************************************************************************)
\* GrpcContext::new_client_context: a ClientContext that no call has used,
\* carrying call credentials iff an AuthSession is set.
new_client_context == [id |-> contexts + 1, credentials |-> d_authSession]

\* GrpcContext::auth_refresh: refreshes the token of the AuthSession, and
\* throws when none was set.
auth_refresh ==
    IF d_authSession
    THEN /\ tokenRefreshes' = tokenRefreshes + 1
         /\ UNCHANGED errorMessage
    ELSE /\ errorMessage' = "An AuthSession was not set"
         /\ UNCHANGED tokenRefreshes

(***************************************************************************)
(* grpc_retry                                                              *)
(***************************************************************************)
\* The test without the refreshed flag.
IsAuthReplay_every_time(st, done) == st.code = NO_AUTH

\* if (status.error_code() == NO_AUTH && !refreshed)
IsAuthReplay(st, done) == st.code = NO_AUTH /\ ~done

\* The sleep kept for UNAVAILABLE (14) only.
ShouldSleep_unavailable_only(n) == n < RECC_RETRY_LIMIT /\ status.code = 14

\* if (n_attempts < RECC_RETRY_LIMIT): the failed attempt is followed by a sleep
ShouldSleep(n) == n < RECC_RETRY_LIMIT

\* The base delay doubled once too often.
time_delay_off_by_one(n) == RECC_RETRY_DELAY * 2 ^ (n + 1)

\* time_delay = static_cast<int>(RECC_RETRY_DELAY * pow(2, n_attempts))
time_delay(n) == RECC_RETRY_DELAY * 2 ^ n

\* The loop test with <= for <.
ShouldLoop_inclusive(n) == n <= RECC_RETRY_LIMIT + 1

\* } while (n_attempts < RECC_RETRY_LIMIT + 1);
ShouldLoop(n) == n < RECC_RETRY_LIMIT + 1

\* The message with the prefix whatever the limit is.
RetryErrorMessage_always_prefixed(st) ==
    "Retry limit exceeded. Last gRPC error was " \o to_string(st.code) \o ": " \o st.msg

\* The message of the runtime_error thrown after the loop.
RetryErrorMessage(st) ==
    LET error_message == to_string(st.code) \o ": " \o st.msg
    IN  IF RECC_RETRY_LIMIT > 0
        THEN "Retry limit exceeded. Last gRPC error was " \o error_message
        ELSE error_message

\* The loop test with n attempts counted, and the throw that follows the loop.
LoopOrThrow(n) ==
    IF ShouldLoop(n)
    THEN /\ pc' = "invoke"
         /\ UNCHANGED <<retry, errorMessage>>
    ELSE /\ pc' = "thrown"
         /\ retry' = "thrown"
         /\ errorMessage' = RetryErrorMessage(status)

\* Top of the loop body around a unary RPC: a new context, then the
\* invocation, which returns any status.
RetryInvokeUnary ==
    /\ pc = "invoke"
    /\ mode = "unary"
    /\ \E st \in Statuses :
        /\ status' = st
        /\ statusLog' = Append(statusLog, st)
    /\ context' = new_client_context
    /\ contexts' = contexts + 1
    /\ invocations' = invocations + 1
    /\ pc' = "check"
    /\ UNCHANGED <<configVars, executeCalls, cacheCall, pathVars,
                   tokenRefreshes, retry, n_attempts, refreshed, sleeps,
                   streamVars, fstatus, s_sigint_received, sigintAt, cancelVars,
                   errorMessage, actionResult>>

\* break for return: an OK status leaves the loop and reaches the throw.
RetryReturnOk_break ==
    /\ pc = "check"
    /\ StatusOk(status)
    /\ retry' = "thrown"
    /\ pc' = "thrown"
    /\ errorMessage' = RetryErrorMessage(status)
    /\ UNCHANGED <<configVars, executeCalls, cacheCall, pathVars,
                   tokenRefreshes, n_attempts, refreshed, status,
                   invocations, statusLog, sleeps, contexts, context, streamVars,
                   fstatus, s_sigint_received, sigintAt, cancelVars, actionResult>>

\* if (status.ok()) return;
RetryReturnOk ==
    /\ pc = "check"
    /\ StatusOk(status)
    /\ retry' = "returned"
    /\ pc' = IF mode = "execute" THEN "examine" ELSE "done"
    /\ UNCHANGED <<configVars, executeCalls, cacheCall, pathVars,
                   tokenRefreshes, n_attempts, refreshed, status,
                   invocations, statusLog, sleeps, contexts, context, streamVars,
                   fstatus, s_sigint_received, sigintAt, cancelVars, errorMessage,
                   actionResult>>

\* The first UNAUTHENTICATED of the call: refreshed = true, then the loop test.
RetryAuthReplay ==
    /\ pc = "check"
    /\ ~StatusOk(status)
    /\ IsAuthReplay(status, refreshed)
    /\ refreshed' = TRUE
    /\ LoopOrThrow(n_attempts)
    /\ UNCHANGED <<configVars, executeCalls, cacheCall, pathVars,
                   tokenRefreshes, n_attempts, status, invocations,
                   statusLog, sleeps, contexts, context, streamVars, fstatus,
                   s_sigint_received, sigintAt, cancelVars, actionResult>>

\* A failed attempt that is not the last allowed one: the driver logs and
\* starts sleeping time_delay ms.
RetryBackoff ==
    /\ pc = "check"
    /\ ~StatusOk(status)
    /\ ~IsAuthReplay(status, refreshed)
    /\ ShouldSleep(n_attempts)
    /\ sleeps' = Append(sleeps, time_delay(n_attempts))
    /\ pc' = "sleep"
    /\ UNCHANGED <<configVars, executeCalls, cacheCall, pathVars,
                   tokenRefreshes, retry, n_attempts, refreshed, status,
                   invocations, statusLog, contexts, context, streamVars, fstatus,
                   s_sigint_received, sigintAt, cancelVars, errorMessage,
                   actionResult>>

\* The sleep is over: n_attempts++, then the loop test.
RetrySleepDone ==
    /\ pc = "sleep"
    /\ n_attempts' = n_attempts + 1
    /\ LoopOrThrow(n_attempts + 1)
    /\ UNCHANGED <<configVars, executeCalls, cacheCall, pathVars,
                   tokenRefreshes, refreshed, status, invocations,
                   statusLog, sleeps, contexts, context, streamVars, fstatus,
                   s_sigint_received, sigintAt, cancelVars, actionResult>>

\* A failed attempt with n_attempts >= RECC_RETRY_LIMIT: no sleep,
\* n_attempts++, then the loop test.
RetryLastFailure ==
    /\ pc = "check"
    /\ ~StatusOk(status)
    /\ ~IsAuthReplay(status, refreshed)
    /\ ~ShouldSleep(n_attempts)
    /\ n_attempts' = n_attempts + 1
    /\ LoopOrThrow(n_attempts + 1)
    /\ UNCHANGED <<configVars, executeCalls, cacheCall, pathVars,
                   tokenRefreshes, refreshed, status, invocations,
                   statusLog, sleeps, contexts, context, streamVars, fstatus,
                   s_sigint_received, sigintAt, cancelVars, actionResult>>

NextRetry ==
    \/ RetryInvokeUnary
    \/ RetryReturnOk
    \/ RetryAuthReplay
    \/ RetryBackoff
    \/ RetrySleepDone
    \/ RetryLastFailure

SpecRetry == InitRetry /\ [][NextRetry]_vars

(***************************************************************************)
(* RemoteExecutionClient::execute_action: the Execute lambda               *)
(***************************************************************************)
\* The process is running: neither exit() was called nor has execute_action
\* returned or thrown.
Running == exitCode = -1 /\ pc \notin {"thrown", "done", "exited"}

\* A done Operation was received on the stream of an earlier attempt of this
\* call and is dropped when the lambda replaces operation_ptr.
DoneDiscarded ==
    \/ operation.done
    \/ executeCalls # <<>> /\ executeCalls[Len(executeCalls)].done_discarded

\* The Execute lambda reading into the Operation of the previous attempt.
ExecuteInvoke_operation_kept ==
    /\ pc = "invoke"
    /\ mode = "execute"
    /\ context' = new_client_context
    /\ executeCalls' = Append(executeCalls,
                              [request |-> executeRequest,
                               context |-> new_client_context,
                               done_discarded |-> DoneDiscarded])
    /\ contexts' = contexts + 1
    /\ invocations' = invocations + 1
    /\ operation' = operation
    /\ receivedAny' = FALSE
    /\ loggedName' = ""
    /\ reader' = "reading"
    /\ pending' = EmptyOperation
    /\ pc' = "poll_wait"
    /\ UNCHANGED <<configVars, cacheCall, pathVars, tokenRefreshes, retry,
                   n_attempts, refreshed, status, statusLog, sleeps, fstatus,
                   s_sigint_received, sigintAt, cancelVars, errorMessage,
                   actionResult>>

\* The Execute lambda clearing the SIGINT flag before it opens the stream.
ExecuteInvoke_flag_cleared ==
    /\ pc = "invoke"
    /\ mode = "execute"
    /\ context' = new_client_context
    /\ executeCalls' = Append(executeCalls,
                              [request |-> executeRequest,
                               context |-> new_client_context,
                               done_discarded |-> DoneDiscarded])
    /\ contexts' = contexts + 1
    /\ invocations' = invocations + 1
    /\ operation' = EmptyOperation
    /\ receivedAny' = FALSE
    /\ loggedName' = ""
    /\ reader' = "reading"
    /\ pending' = EmptyOperation
    /\ s_sigint_received' = FALSE
    /\ pc' = "poll_wait"
    /\ UNCHANGED <<configVars, cacheCall, pathVars,
                   tokenRefreshes, retry, n_attempts, refreshed, status,
                   statusLog, sleeps, fstatus, sigintAt,
                   cancelVars, errorMessage, actionResult>>

\* Top of the loop body around the Execute lambda: a new context, the
\* Execute RPC is issued on it, operation_ptr is replaced by a fresh
\* Operation and read_operation launches the reader thread.
ExecuteInvoke ==
    /\ pc = "invoke"
    /\ mode = "execute"
    /\ context' = new_client_context
    /\ executeCalls' = Append(executeCalls,
                              [request |-> executeRequest,
                               context |-> new_client_context,
                               done_discarded |-> DoneDiscarded])
    /\ contexts' = contexts + 1
    /\ invocations' = invocations + 1
    /\ operation' = EmptyOperation
    /\ receivedAny' = FALSE
    /\ loggedName' = ""
    /\ reader' = "reading"
    /\ pending' = EmptyOperation
    /\ pc' = "poll_wait"
    /\ UNCHANGED <<configVars, cacheCall, pathVars,
                   tokenRefreshes, retry, n_attempts, refreshed, status,
                   statusLog, sleeps, fstatus, s_sigint_received, sigintAt,
                   cancelVars, errorMessage, actionResult>>

(***************************************************************************)
(* read_operation_async: the reader thread                                 *)
(***************************************************************************)
\* reader_ptr->Read(operation_ptr.get()) has a message m from the server and
\* starts deserialising it into the shared Operation.
ReaderReadBegin ==
    /\ Running
    /\ reader = "reading"
    /\ \E m \in Operations : pending' = m
    /\ reader' = "writing"
    /\ UNCHANGED <<configVars, executeCalls, cacheCall, pathVars,
                   tokenRefreshes, pc, retryVars, contexts, context,
                   operation, receivedAny, loggedName, fstatus,
                   s_sigint_received, sigintAt, cancelVars, errorMessage,
                   actionResult>>

\* Read returns true: the shared Operation now is the message; the loop
\* breaks if it is done and reads again otherwise.
ReaderReadEnd ==
    /\ Running
    /\ reader = "writing"
    /\ operation' = pending
    /\ receivedAny' = TRUE
    /\ loggedName' = IF loggedName = "" THEN pending.name ELSE loggedName
    /\ reader' = IF pending.done THEN "finished" ELSE "reading"
    /\ pending' = EmptyOperation
    /\ UNCHANGED <<configVars, executeCalls, cacheCall, pathVars,
                   tokenRefreshes, pc, retryVars, contexts, context,
                   fstatus, s_sigint_received, sigintAt, cancelVars, errorMessage,
                   actionResult>>

\* Read returns false: the server closed the stream.
ReaderStreamEnd ==
    /\ Running
    /\ reader = "reading"
    /\ reader' = "finished"
    /\ UNCHANGED <<configVars, executeCalls, cacheCall, pathVars,
                   tokenRefreshes, pc, retryVars, contexts, context,
                   operation, receivedAny, loggedName, pending, fstatus,
                   s_sigint_received, sigintAt, cancelVars, errorMessage,
                   actionResult>>

(***************************************************************************)
(* SIGINT                                                                  *)
(***************************************************************************)
\* The handler installed by execute_action runs: set_sigint_received.
Sigint ==
    /\ Running
    /\ mode = "execute"
    /\ s_sigint_received' = TRUE
    /\ sigintAt' = IF sigintAt = "none" THEN pc ELSE sigintAt
    /\ UNCHANGED <<configVars, executeCalls, cacheCall, pathVars,
                   tokenRefreshes, pc, retryVars, contexts, context,
                   streamVars, fstatus, cancelVars, errorMessage, actionResult>>

(***************************************************************************)
(* RemoteExecutionClient::read_operation: the main thread's poll loop      *)
(***************************************************************************)
\* What an unsynchronised read of operation_ptr->name() can yield: the
\* stored name, or, while Read is deserialising a message into the same
\* Operation, also the cleared name or the incoming one.
VisibleNames ==
    IF reader = "writing"
    THEN {operation.name, "", pending.name}
    ELSE {operation.name}

\* status = future.wait_for(DEFAULT_RECC_POLL_WAIT)
PollWait ==
    /\ pc = "poll_wait"
    /\ fstatus' = IF reader = "finished" THEN "ready" ELSE "timeout"
    /\ pc' = "poll_check"
    /\ UNCHANGED <<configVars, executeCalls, cacheCall, pathVars,
                   tokenRefreshes, retryVars, contexts, context,
                   streamVars, s_sigint_received, sigintAt, cancelVars,
                   errorMessage, actionResult>>

\* if (s_sigint_received): the name is read; with a name the Operation is
\* cancelled first, without one the process exits at once.
PollSigint ==
    /\ pc = "poll_check"
    /\ s_sigint_received
    /\ \E nm \in VisibleNames :
        /\ nameChecked' = nm
        /\ pc' = IF nm # "" THEN "cancel_call" ELSE "exit"
    /\ UNCHANGED <<configVars, executeCalls, cacheCall, pathVars,
                   tokenRefreshes, retryVars, contexts, context,
                   streamVars, fstatus, s_sigint_received, sigintAt, cancelCalls,
                   exitCode, errorMessage, actionResult>>

\* The loop of read_operation going round whatever wait_for returned.
PollAgain_always ==
    /\ pc = "poll_check"
    /\ ~s_sigint_received
    /\ pc' = "poll_wait"
    /\ UNCHANGED <<configVars, executeCalls, cacheCall, pathVars,
                   tokenRefreshes, retryVars, contexts, context,
                   streamVars, fstatus, s_sigint_received, sigintAt, cancelVars,
                   errorMessage, actionResult>>

\* } while (status != std::future_status::ready): the flag is not set and
\* the reader has not finished.
PollAgain ==
    /\ pc = "poll_check"
    /\ ~s_sigint_received
    /\ fstatus # "ready"
    /\ pc' = "poll_wait"
    /\ UNCHANGED <<configVars, executeCalls, cacheCall, pathVars,
                   tokenRefreshes, retryVars, contexts, context,
                   streamVars, fstatus, s_sigint_received, sigintAt, cancelVars,
                   errorMessage, actionResult>>

\* read_operation returning after one wait_for, ready or not.
PollReturn_on_timeout ==
    /\ pc = "poll_check"
    /\ ~s_sigint_received
    /\ pc' = "finish"
    /\ UNCHANGED <<configVars, executeCalls, cacheCall, pathVars,
                   tokenRefreshes, retryVars, contexts, context,
                   streamVars, fstatus, s_sigint_received, sigintAt, cancelVars,
                   errorMessage, actionResult>>

\* The flag is looked at only after a timeout: a ready future returns at once.
PollReturn_unchecked ==
    /\ pc = "poll_check"
    /\ fstatus = "ready"
    /\ pc' = "finish"
    /\ UNCHANGED <<configVars, executeCalls, cacheCall, pathVars,
                   tokenRefreshes, retryVars, contexts, context,
                   streamVars, fstatus, s_sigint_received, sigintAt, cancelVars,
                   errorMessage, actionResult>>

\* The flag is not set and the reader has finished: read_operation returns
\* and the lambda calls reader_ptr->Finish().
PollReturn ==
    /\ pc = "poll_check"
    /\ ~s_sigint_received
    /\ fstatus = "ready"
    /\ pc' = "finish"
    /\ UNCHANGED <<configVars, executeCalls, cacheCall, pathVars,
                   tokenRefreshes, retryVars, contexts, context,
                   streamVars, fstatus, s_sigint_received, sigintAt, cancelVars,
                   errorMessage, actionResult>>

\* Finish followed by a test of the flag that exits the process.
StreamFinish_flag_tested ==
    /\ pc = "finish"
    /\ \E st \in StreamStatuses :
        /\ status' = st
        /\ statusLog' = Append(statusLog, st)
    /\ pc' = IF s_sigint_received THEN "exit" ELSE "check"
    /\ UNCHANGED <<configVars, executeCalls, cacheCall, pathVars,
                   tokenRefreshes, retry, n_attempts, refreshed,
                   invocations, sleeps, contexts, context, streamVars, fstatus,
                   s_sigint_received, sigintAt, cancelVars, errorMessage,
                   actionResult>>

\* return reader_ptr->Finish(): the stream's final status, which the
\* server decides.
StreamFinish ==
    /\ pc = "finish"
    /\ \E st \in StreamStatuses :
        /\ status' = st
        /\ statusLog' = Append(statusLog, st)
    /\ pc' = "check"
    /\ UNCHANGED <<configVars, executeCalls, cacheCall, pathVars,
                   tokenRefreshes, retry, n_attempts, refreshed,
                   invocations, sleeps, contexts, context, streamVars, fstatus,
                   s_sigint_received, sigintAt, cancelVars, errorMessage,
                   actionResult>>

(***************************************************************************)
(* RemoteExecutionClient::cancel_operation                                 *)
(***************************************************************************)
\* CancelOperation sent on the context of the Execute call in progress.
cancel_operation_same_context(operationName, s) ==
    /\ cancelCalls' = Append(cancelCalls,
                             [name |-> operationName,
                              context |-> context,
                              status |-> s])
    /\ contexts' = contexts
    /\ pc' = "exit"
    /\ UNCHANGED errorMessage

\* A failed CancelOperation raised as an error instead of logged.
cancel_operation_throwing(operationName, s) ==
    /\ cancelCalls' = Append(cancelCalls,
                             [name |-> operationName,
                              context |-> new_client_context,
                              status |-> s])
    /\ contexts' = contexts + 1
    /\ IF StatusOk(s)
       THEN pc' = "exit" /\ UNCHANGED errorMessage
       ELSE pc' = "thrown" /\ errorMessage' = "Failed to cancel job " \o operationName

\* CancelOperation(operationName) is sent on a context made for it; its
\* status s is logged and the function returns.
cancel_operation(operationName, s) ==
    /\ cancelCalls' = Append(cancelCalls,
                             [name |-> operationName,
                              context |-> new_client_context,
                              status |-> s])
    /\ contexts' = contexts + 1
    /\ pc' = "exit"
    /\ UNCHANGED errorMessage

\* cancel_operation(operation_ptr->name()): the name is read again for the
\* argument.
PollCancel ==
    /\ pc = "cancel_call"
    /\ \E nm \in VisibleNames, s \in StreamStatuses : cancel_operation(nm, s)
    /\ UNCHANGED <<configVars, executeCalls, cacheCall, pathVars,
                   tokenRefreshes, retryVars, context, streamVars,
                   fstatus, s_sigint_received, sigintAt, nameChecked, exitCode,
                   actionResult>>

\* exit(130); // Ctrl+C exit code
PollExit ==
    /\ pc = "exit"
    /\ exitCode' = 130
    /\ pc' = "exited"
    /\ UNCHANGED <<configVars, executeCalls, cacheCall, pathVars,
                   tokenRefreshes, retryVars, contexts, context,
                   streamVars, fstatus, s_sigint_received, sigintAt, nameChecked,
                   cancelCalls, errorMessage, actionResult>>

(***************************************************************************)
(* get_actionresult and the end of execute_action                          *)
(***************************************************************************)
\* ensure_ok(status): the message thrown for a status that is not OK.
EnsureOkMessage(code) == "gRPC error " \o to_string(code)

\* get_actionresult returning the result of the ExecuteResponse without
\* looking at its status.
GetActionResultError_status_ignored(op) ==
    IF ~op.done
    THEN "Called get_actionresult on an unfinished Operation"
    ELSE IF op.kind = "error" /\ op.code # 0
    THEN EnsureOkMessage(op.code)
    ELSE IF op.kind \in {"none", "other"}
    THEN "Server returned invalid Operation result"
    ELSE IF op.kind # "response"
    THEN "Operation response unpacking failed"
    ELSE ""

\* get_actionresult(operation): the message of the exception it throws, or
\* "" when it returns the ActionResult of the ExecuteResponse.
GetActionResultError(op) ==
    IF ~op.done
    THEN "Called get_actionresult on an unfinished Operation"
    ELSE IF op.kind = "error" /\ op.code # 0
    THEN EnsureOkMessage(op.code)
    ELSE IF op.kind \in {"none", "other"}
    THEN "Server returned invalid Operation result"
    ELSE IF op.kind # "response"
    THEN "Operation response unpacking failed"
    ELSE IF op.code # 0
    THEN EnsureOkMessage(op.code)
    ELSE ""

\* The Operation handed to get_actionresult without the done test.
ExecuteActionError_no_done_test(op) == GetActionResultError(op)

\* The message execute_action throws once grpc_retry has returned, "" if none.
ExecuteActionError(op) ==
    IF ~op.done
    THEN "Server closed stream before Operation finished"
    ELSE GetActionResultError(op)

\* from_proto leaving d_exitCode at its default.
from_proto_exit_code_dropped(op) == [present |-> TRUE, exit_code |-> 0]

\* RemoteExecutionClient::from_proto, as far as the exit code goes.
from_proto(op) == [present |-> TRUE, exit_code |-> op.exit_code]

\* grpc_retry has returned: the Operation is examined and either an
\* exception is thrown or the ActionResult is returned.
ExamineOperation ==
    /\ pc = "examine"
    /\ IF ExecuteActionError(operation) # ""
       THEN /\ errorMessage' = ExecuteActionError(operation)
            /\ pc' = "thrown"
            /\ UNCHANGED actionResult
       ELSE /\ actionResult' = from_proto(operation)
            /\ pc' = "done"
            /\ UNCHANGED errorMessage
    /\ UNCHANGED <<configVars, executeCalls, cacheCall, pathVars,
                   tokenRefreshes, retryVars, contexts, context,
                   streamVars, fstatus, s_sigint_received, sigintAt, cancelVars>>

NextExecute ==
    \/ ExecuteInvoke
    \/ ReaderReadBegin
    \/ ReaderReadEnd
    \/ ReaderStreamEnd
    \/ Sigint
    \/ PollWait
    \/ PollSigint
    \/ PollAgain
    \/ PollReturn
    \/ StreamFinish
    \/ PollCancel
    \/ PollExit
    \/ ExamineOperation
    \/ RetryReturnOk
    \/ RetryAuthReplay
    \/ RetryBackoff
    \/ RetrySleepDone
    \/ RetryLastFailure

SpecExecute == InitExecute /\ [][NextExecute]_vars

(***************************************************************************)
(* Properties of grpc_retry (checked under SpecRetry)                      *)
(***************************************************************************)
Min(a, b) == IF a < b THEN a ELSE b

Last(q) == q[Len(q)]

\* The codes of the statuses returned so far, in order.
LogCodes == [i \in DOMAIN statusLog |-> statusLog[i].code]

\* Number of invocations so far that returned a status other than OK.
Failures == Cardinality({i \in DOMAIN statusLog : ~StatusOk(statusLog[i])})

\* 1 if some invocation so far returned UNAUTHENTICATED, else 0.
Replays == IF \E i \in DOMAIN statusLog : statusLog[i].code = NO_AUTH THEN 1 ELSE 0

\* C1: one call of grpc_retry invokes the RPC at most RECC_RETRY_LIMIT + 2
\* times: at most RECC_RETRY_LIMIT + 1 counted attempts (invocations other
\* than the replayed first UNAUTHENTICATED one) and at most one replay.
C1_RetryBound ==
    /\ invocations <= RECC_RETRY_LIMIT + 2
    /\ invocations - Replays <= RECC_RETRY_LIMIT + 1
    /\ n_attempts <= RECC_RETRY_LIMIT + 1

\* C1 witness: the bound is met: RECC_RETRY_LIMIT + 2 invocations, all failed.
C1_Witness ==
    /\ RECC_RETRY_LIMIT = MaxRetryLimit
    /\ invocations = RECC_RETRY_LIMIT + 2
    /\ retry = "thrown"

\* C2: the i-th sleep of a call (i = 1, 2, ...) lasts RECC_RETRY_DELAY *
\* 2^(i-1) ms, one sleep follows each counted failed attempt but the last
\* allowed one, which is followed by none; with limit 2, delay 10 and
\* statuses UNAVAILABLE, UNAVAILABLE, OK there are three invocations and
\* sleeps of 10 and 20 ms.
C2_BackoffDelays ==
    /\ \A i \in DOMAIN sleeps : sleeps[i] = RECC_RETRY_DELAY * 2 ^ (i - 1)
    /\ Len(sleeps) <= RECC_RETRY_LIMIT
    /\ pc = "sleep" => Len(sleeps) = n_attempts + 1
    /\ pc # "sleep" => Len(sleeps) = Min(n_attempts, RECC_RETRY_LIMIT)
    /\ (RECC_RETRY_LIMIT = 2 /\ RECC_RETRY_DELAY = 10 /\ LogCodes = <<14, 14, 0>>)
        => (invocations = 3 /\ sleeps = <<10, 20>>)

\* C2 witness: the scenario UNAVAILABLE, UNAVAILABLE, OK with limit 2, delay 10.
C2_Witness ==
    /\ RECC_RETRY_LIMIT = 2
    /\ RECC_RETRY_DELAY = 10
    /\ LogCodes = <<14, 14, 0>>
    /\ retry = "returned"
    /\ sleeps = <<10, 20>>

\* C3: once the first UNAUTHENTICATED of a call has been handled with an
\* AuthSession set, the token has been refreshed (refresh_current_token was
\* called) before the RPC is invoked again.
C3_RefreshBeforeReplay ==
    (refreshed /\ d_authSession) => tokenRefreshes >= 1

\* C4: the first UNAUTHENTICATED of a call, and only it, is neither counted
\* nor followed by a sleep: between attempts the counter equals the number
\* of failed invocations minus that one replay, every counted failure short
\* of the limit has been followed by a sleep, and refreshed records the replay.
C4_AuthReplayOnce ==
    pc \in {"invoke", "done", "thrown"} =>
        /\ n_attempts = Failures - Replays
        /\ Len(sleeps) = Min(n_attempts, RECC_RETRY_LIMIT)
        /\ refreshed = (Replays = 1)
        /\ invocations = Len(statusLog)

\* C4 witness: a second UNAUTHENTICATED in one call has been counted and
\* followed by a sleep, the first having been replayed at once.
C4_Witness ==
    /\ Len(statusLog) = 2
    /\ statusLog[1].code = NO_AUTH
    /\ statusLog[2].code = NO_AUTH
    /\ pc = "invoke"
    /\ n_attempts = 1
    /\ Len(sleeps) = 1

\* C5: an invocation that returned OK is the last one of the call, and once
\* it has been handled grpc_retry has returned without an error and without
\* a sleep after it, whatever failures came before.
C5_OkReturns ==
    \A i \in DOMAIN statusLog :
        StatusOk(statusLog[i]) =>
            /\ i = Len(statusLog)
            /\ pc \in {"check", "done"}
            /\ pc = "done" => (retry = "returned" /\ errorMessage = "")
            /\ Len(sleeps) = n_attempts

\* C5 witness: OK after two failures, and grpc_retry has returned.
C5_Witness ==
    /\ Len(statusLog) = 3
    /\ StatusOk(statusLog[3])
    /\ retry = "returned"
    /\ n_attempts >= 1

\* C6 as stated: whenever grpc_retry has thrown, the message is "Retry limit
\* exceeded. Last gRPC error was <code>: <msg>" of the last status.
C6_Original ==
    retry = "thrown" =>
        errorMessage =
            "Retry limit exceeded. Last gRPC error was "
                \o to_string(Last(statusLog).code) \o ": " \o Last(statusLog).msg

\* C6 amended: grpc_retry throws exactly when RECC_RETRY_LIMIT + 1 attempts
\* have been counted; the message is "<code>: <msg>" of the last status
\* returned, preceded by "Retry limit exceeded. Last gRPC error was " when
\* RECC_RETRY_LIMIT > 0 and by nothing when RECC_RETRY_LIMIT = 0.
C6_ExhaustionMessage ==
    /\ (retry = "thrown") = (n_attempts = RECC_RETRY_LIMIT + 1)
    /\ retry = "thrown" =>
        /\ ~StatusOk(Last(statusLog))
        /\ errorMessage =
            (IF RECC_RETRY_LIMIT > 0
             THEN "Retry limit exceeded. Last gRPC error was "
             ELSE "")
                \o to_string(Last(statusLog).code) \o ": " \o Last(statusLog).msg

\* C6 witness: the limit is 0 and the single attempt failed.
C6_Witness ==
    /\ RECC_RETRY_LIMIT = 0
    /\ retry = "thrown"
    /\ errorMessage = "14: m1"

(***************************************************************************)
(* Properties of execute_action (checked under SpecExecute)                *)
(***************************************************************************)
\* C7: once the main thread has seen the SIGINT flag in its poll, it sends
\* CancelOperation exactly once if the name it read is not empty and not at
\* all if it is empty, on a context created for that call and so not the one
\* of the Execute call, and then exits with code 130.
C7_CancelOnSigint ==
    /\ Len(cancelCalls) <= 1
    /\ pc \in {"cancel_call", "exit", "exited"} => s_sigint_received
    /\ pc = "cancel_call" => (nameChecked # "" /\ cancelCalls = <<>>)
    /\ pc \in {"exit", "exited"} =>
        Len(cancelCalls) = (IF nameChecked # "" THEN 1 ELSE 0)
    /\ \A i \in DOMAIN cancelCalls :
        /\ cancelCalls[i].context.id # context.id
        /\ cancelCalls[i].context.id = contexts
    /\ (pc = "exited") = (exitCode = 130)
    /\ exitCode \in {-1, 130}

\* C7 witness: the process has exited after one CancelOperation named op-42.
C7_Witness ==
    /\ pc = "exited"
    /\ exitCode = 130
    /\ Len(cancelCalls) = 1
    /\ cancelCalls[1].name = "op-42"

\* C8: once CancelOperation has been sent, whatever its status, nothing is
\* thrown, no second CancelOperation is sent and the only step left is the
\* exit with code 130.
C8_ExitDespiteCancelFailure ==
    cancelCalls # <<>> =>
        /\ Len(cancelCalls) = 1
        /\ errorMessage = ""
        /\ pc \in {"exit", "exited"}
        /\ pc = "exit" => ENABLED PollExit
        /\ pc = "exited" => exitCode = 130

\* C8 witness: exit 130 after a CancelOperation that failed.
C8_Witness ==
    /\ pc = "exited"
    /\ exitCode = 130
    /\ Len(cancelCalls) = 1
    /\ ~StatusOk(cancelCalls[1].status)

\* C9 as stated: a SIGINT delivered at any moment from the Execute call to
\* the return of Finish is never followed by an ActionResult.
C9_Original ==
    sigintAt \in {"poll_wait", "poll_check", "finish"} => ~actionResult.present

\* C9 amended: a SIGINT delivered while read_operation is still polling
\* (before its last test of the flag) makes that poll loop end in the exit
\* with code 130, after at most one CancelOperation: Finish is not called,
\* no further attempt is made, nothing is thrown and no ActionResult is
\* returned.
C9_SigintWhilePolling ==
    sigintAt \in {"poll_wait", "poll_check"} =>
        /\ pc \in {"poll_wait", "poll_check", "cancel_call", "exit", "exited"}
        /\ pc = "poll_check" => ENABLED PollSigint
        /\ pc = "exited" => exitCode = 130
        /\ Len(cancelCalls) <= 1
        /\ ~actionResult.present
        /\ errorMessage = ""

\* C9 witness: SIGINT arrived after the reader had finished with a done
\* Operation but before the flag was tested, and the process exited 130.
C9_Witness ==
    /\ sigintAt = "poll_check"
    /\ fstatus = "ready"
    /\ operation.done
    /\ pc = "exited"
    /\ exitCode = 130

\* C10: when grpc_retry has returned (the last stream was closed with an OK
\* status) and the Operation is not done, be it the last one received or the
\* fresh one because none was received, execute_action throws "Server closed
\* stream before Operation finished" and returns no ActionResult.
C10_StreamClosedEarly ==
    (retry = "returned" /\ ~operation.done /\ pc # "examine") =>
        /\ pc = "thrown"
        /\ errorMessage = "Server closed stream before Operation finished"
        /\ ~actionResult.present

\* C10 witness: the stream was closed with OK before any Operation arrived.
C10_Witness ==
    /\ retry = "returned"
    /\ ~receivedAny
    /\ pc = "thrown"
    /\ errorMessage = "Server closed stream before Operation finished"

(***************************************************************************)
(* Properties of get_actionresult and from_proto (checked under            *)
(* SpecExecute)                                                            *)
(***************************************************************************)
\* The Operation carries no error and an ExecuteResponse whose status is OK.
OperationSucceeded(op) == op.done /\ op.kind = "response" /\ op.code = 0

\* C11: for a done Operation an ActionResult is returned only if the
\* Operation carries no error and its response is an ExecuteResponse whose
\* status is OK; with an error set, with the response missing or of another
\* type, or with a status that is not OK, an exception is thrown and no
\* ActionResult is returned.
C11_ResultOnlyFromOkResponse ==
    /\ actionResult.present => pc = "done" /\ OperationSucceeded(operation)
    /\ (pc = "done" /\ operation.done) => OperationSucceeded(operation)
    /\ (retry = "returned" /\ pc \in {"done", "thrown"} /\ operation.done
            /\ ~OperationSucceeded(operation))
        => pc = "thrown" /\ errorMessage # "" /\ ~actionResult.present

\* A done Operation whose ExecuteResponse has a status that is not OK was
\* examined, and an exception was thrown.
C11_Witness ==
    /\ pc = "thrown"
    /\ retry = "returned"
    /\ operation.done
    /\ operation.kind = "response"
    /\ operation.code # 0
    /\ errorMessage = EnsureOkMessage(operation.code)
    /\ ~actionResult.present

C13_FreshStreamPerAttempt ==
    /\ executeRequest \in ExecuteRequests
    /\ Len(executeCalls) = invocations
    /\ \A i \in 1..Len(executeCalls) :
        /\ executeCalls[i].request = executeRequest
        /\ executeCalls[i].done_discarded => i > 1 /\ ~StatusOk(statusLog[i - 1])
        /\ \A j \in 1..Len(executeCalls) :
            i # j => executeCalls[i].context.id # executeCalls[j].context.id
    /\ (reader # "idle" /\ ~receivedAny) => operation = EmptyOperation
    /\ retry = "returned"
        => /\ Len(statusLog) = invocations
           /\ StatusOk(Last(statusLog))
           /\ \A i \in 1..(Len(statusLog) - 1) : ~StatusOk(statusLog[i])

\* The first stream delivered a done Operation and finished with a status
\* that is not OK; the second stream delivered nothing and finished OK, and
\* the Operation examined is the empty one of the second attempt.
C13_Witness ==
    /\ invocations = 2
    /\ executeCalls[2].done_discarded
    /\ ~StatusOk(statusLog[1])
    /\ retry = "returned"
    /\ ~receivedAny
    /\ operation = EmptyOperation
    /\ pc = "thrown"
    /\ errorMessage = "Server closed stream before Operation finished"

(***************************************************************************)
(* RemoteExecutionClient::fetch_from_action_cache                          *)
(*   cacheCall.result_given: the argument result is not nullptr            *)
(*   cacheCall.before:       *result when the function was entered         *)
(*   cacheCall.result:       *result now                                   *)
(*   cacheCall.proto:        the proto::ActionResult the server sent       *)
(*   cacheCall.returned:     "none", "true", "false" or "thrown"           *)
(***************************************************************************)
\* grpc::StatusCode::NOT_FOUND
NOT_FOUND == 5

\* What GetActionResult can return.
CacheStatuses == Statuses \cup {[code |-> NOT_FOUND, msg |-> m] : m \in StatusMessages}

\* The proto::ActionResults the action cache may hold.
CachedResults == {[exit_code |-> e] : e \in {0, 1}}

\* What the caller's ActionResult object may hold before the call.
CallerResults == {NoResult, [present |-> TRUE, exit_code |-> 255]}

InitCache ==
    /\ mode = "cache"
    /\ RECC_RETRY_LIMIT \in 0..MaxRetryLimit
    /\ RECC_RETRY_DELAY \in RetryDelays
    /\ d_authSession \in BOOLEAN
    /\ executeRequest = NoRequest
    /\ \E given \in BOOLEAN :
       \E b \in (IF given THEN CallerResults ELSE {NoResult}) :
           cacheCall = [result_given |-> given, before |-> b, result |-> b,
                        proto |-> NoResult, returned |-> "none"]
    /\ InitLocals
    /\ InitNoFiles
    /\ InitNoConfig
    /\ InitNoPath

\* grpc::ClientContext context; d_actionCacheStub->GetActionResult(&context,
\* actionRequest, &actionResult): one RPC on a context built in place, which
\* returns any status and, with an OK status, the cached ActionResult.
CacheGetActionResult ==
    /\ pc = "invoke"
    /\ mode = "cache"
    /\ context' = [id |-> contexts + 1, credentials |-> FALSE]
    /\ contexts' = contexts + 1
    /\ invocations' = invocations + 1
    /\ \E st \in CacheStatuses :
        /\ status' = st
        /\ statusLog' = Append(statusLog, st)
        /\ IF StatusOk(st)
           THEN \E proto \in CachedResults :
                    cacheCall' = [cacheCall EXCEPT !.proto = proto]
           ELSE UNCHANGED cacheCall
    /\ pc' = "check"
    /\ UNCHANGED <<configVars, executeCalls, pathVars, tokenRefreshes, retry,
                   n_attempts, refreshed, sleeps, streamVars, fstatus,
                   s_sigint_received, sigintAt, cancelVars, errorMessage,
                   actionResult>>

\* if (status.error_code() == grpc::StatusCode::NOT_FOUND) return false;
CacheMissStatus(st) == ~StatusOk(st) /\ st.code = NOT_FOUND

\* The miss clearing the caller's result object.
CacheMiss_result_cleared ==
    /\ pc = "check"
    /\ mode = "cache"
    /\ CacheMissStatus(status)
    /\ cacheCall' = [cacheCall EXCEPT !.returned = "false", !.result = NoResult]
    /\ pc' = "done"
    /\ UNCHANGED <<configVars, executeCalls, pathVars, tokenRefreshes, retryVars,
                   contexts, context, streamVars, fstatus, s_sigint_received,
                   sigintAt, cancelVars, errorMessage, actionResult>>

\* A cache miss: return false.
CacheMiss ==
    /\ pc = "check"
    /\ mode = "cache"
    /\ CacheMissStatus(status)
    /\ cacheCall' = [cacheCall EXCEPT !.returned = "false"]
    /\ pc' = "done"
    /\ UNCHANGED <<configVars, executeCalls, pathVars, tokenRefreshes, retryVars,
                   contexts, context, streamVars, fstatus, s_sigint_received,
                   sigintAt, cancelVars, errorMessage, actionResult>>

\* Any other status that is not OK: throw std::runtime_error.
CacheError ==
    /\ pc = "check"
    /\ mode = "cache"
    /\ ~StatusOk(status)
    /\ ~CacheMissStatus(status)
    /\ errorMessage' = "Action cache returned error " \o status.msg
    /\ cacheCall' = [cacheCall EXCEPT !.returned = "thrown"]
    /\ pc' = "thrown"
    /\ UNCHANGED <<configVars, executeCalls, pathVars, tokenRefreshes, retryVars,
                   contexts, context, streamVars, fstatus, s_sigint_received,
                   sigintAt, cancelVars, actionResult>>

\* A cache hit: *result = from_proto(actionResult) unless result is nullptr,
\* return true.
CacheHit ==
    /\ pc = "check"
    /\ mode = "cache"
    /\ StatusOk(status)
    /\ cacheCall' = [cacheCall EXCEPT
                        !.returned = "true",
                        !.result = IF cacheCall.result_given
                                   THEN from_proto(cacheCall.proto)
                                   ELSE @]
    /\ pc' = "done"
    /\ UNCHANGED <<configVars, executeCalls, pathVars, tokenRefreshes, retryVars,
                   contexts, context, streamVars, fstatus, s_sigint_received,
                   sigintAt, cancelVars, errorMessage, actionResult>>

NextCache ==
    \/ CacheGetActionResult
    \/ CacheMiss
    \/ CacheError
    \/ CacheHit

SpecCache == InitCache /\ [][NextCache]_vars

(***************************************************************************)
(* Properties of fetch_from_action_cache (checked under SpecCache)         *)
(***************************************************************************)
\* C14: a NOT_FOUND from GetActionResult is a cache miss: the function
\* returns false, throws nothing and leaves the caller's result object as it
\* was; it returns true only when the status is OK, and then the caller's
\* object, if one was given, holds the decoded ActionResult.
C14_NotFoundIsMiss ==
    /\ (cacheCall.returned # "none" /\ status.code = NOT_FOUND)
        => /\ cacheCall.returned = "false"
           /\ errorMessage = ""
           /\ cacheCall.result = cacheCall.before
    /\ cacheCall.returned = "false" => status.code = NOT_FOUND
    /\ cacheCall.returned = "true"
        => /\ StatusOk(status)
           /\ cacheCall.result_given => cacheCall.result = from_proto(cacheCall.proto)
    /\ (cacheCall.returned # "none" /\ StatusOk(status)) => cacheCall.returned = "true"

\* GetActionResult returned NOT_FOUND, the function returned false, and the
\* caller's object still holds the result it held before.
C14_Witness ==
    /\ pc = "done"
    /\ status.code = NOT_FOUND
    /\ cacheCall.returned = "false"
    /\ cacheCall.result_given
    /\ cacheCall.before.present
    /\ cacheCall.result = cacheCall.before

\* C15: a status of GetActionResult that is neither OK nor NOT_FOUND reaches
\* the caller as an error only after the lookup has been retried under the
\* policy of grpc_retry, that is after at least RECC_RETRY_LIMIT + 1 failed
\* invocations of the RPC.
C15_LookupRetried ==
    (mode = "cache" /\ pc = "thrown") => invocations >= RECC_RETRY_LIMIT + 1

(***************************************************************************)
(* FileUtils: path manipulation.  A path is a C string, modelled as the    *)
(* sequence of its characters; positions are counted from 0 as in the      *)
(* code, and the character at position Len(s) is the terminator.           *)
(***************************************************************************)
NUL == "NUL"

\* s[i] of a C string or std::string.
CharAt(s, i) ==
    IF i < Len(s) THEN s[i + 1]
    ELSE IF i = Len(s) THEN NUL
    ELSE "out of bounds"

\* const char *workingDirectory == nullptr
nullptr == <<"nullptr">>

Dot == <<".">>

DotDot == <<".", ".">>

\* strchr(path, c): the position of the first c counted from 1, 0 for nullptr.
strchr(path, c) ==
    IF \E i \in 1..Len(path) : path[i] = c
    THEN CHOOSE i \in 1..Len(path) :
            path[i] = c /\ \A j \in 1..(i - 1) : path[j] # c
    ELSE 0

\* s.substr(pos)
substr_from(s, pos) == SubSeq(s, pos + 1, Len(s))

\* s.substr(0, n)
substr_to(s, n) == SubSeq(s, 1, Min(n, Len(s)))

\* s.pop_back()
pop_back(s) == SubSeq(s, 1, Len(s) - 1)

\* s.back()
back(s) == s[Len(s)]

\* The while loop of normalize_path: path is what is left to scan, segments
\* the vector built so far.
RECURSIVE normalize_segments(_, _)
normalize_segments(path, segments) ==
    IF path = <<>> THEN segments
    ELSE LET slash == strchr(path, "/")
             segment == IF slash = 0 THEN path ELSE SubSeq(path, 1, slash - 1)
             pushed ==
                 IF segment = DotDot /\ segments # <<>> /\ back(segments) # DotDot
                 THEN pop_back(segments)
                 ELSE IF segment # Dot /\ segment # <<>>
                 THEN Append(segments, segment)
                 ELSE segments
         IN  IF slash = 0 THEN pushed
             ELSE normalize_segments(substr_from(path, slash), pushed)

\* for (const auto &segment : segments) result += segment + "/";
RECURSIVE join_segments(_)
join_segments(segments) ==
    IF segments = <<>> THEN <<>>
    ELSE Head(segments) \o <<"/">> \o join_segments(Tail(segments))

\* normalize_path with the test for a leading '/' inverted.
normalize_path_global_inverted(path) ==
    LET global == ~(CharAt(path, 0) = "/")
        segments == normalize_segments(path, <<>>)
        result == IF global THEN <<"/">> ELSE <<>>
    IN  IF Len(segments) > 0
        THEN result \o pop_back(join_segments(segments))
        ELSE result

\* normalize_path without the final result.pop_back().
normalize_path_trailing_slash(path) ==
    LET global == CharAt(path, 0) = "/"
        segments == normalize_segments(path, <<>>)
        result == IF global THEN <<"/">> ELSE <<>>
    IN  IF Len(segments) > 0
        THEN result \o join_segments(segments)
        ELSE result

\* FileUtils::normalize_path
normalize_path(path) ==
    LET global == CharAt(path, 0) = "/"
        segments == normalize_segments(path, <<>>)
        result == IF global THEN <<"/">> ELSE <<>>
    IN  IF Len(segments) > 0
        THEN result \o pop_back(join_segments(segments))
        ELSE result

\* has_path_prefix comparing the prefix as given, no '/' appended.
has_path_prefix_textual(path, prefix) ==
    IF prefix = <<>> THEN FALSE
    ELSE IF path = prefix THEN TRUE
    ELSE substr_to(path, Len(prefix)) = prefix

\* FileUtils::has_path_prefix
has_path_prefix(path, prefix) ==
    IF prefix = <<>> THEN FALSE
    ELSE IF path = prefix THEN TRUE
    ELSE LET slashed == IF back(prefix) # "/" THEN Append(prefix, "/") ELSE prefix
         IN  substr_to(path, Len(slashed)) = slashed

\* The first return of make_path_relative: the path is handed back as it is.
ReturnsPathUnchanged(path, workingDirectory) ==
    \/ workingDirectory = nullptr
    \/ CharAt(workingDirectory, 0) = NUL
    \/ Len(path) = 0
    \/ CharAt(path, 0) # "/"
    \/ ~has_path_prefix(path, RECC_PROJECT_ROOT)

\* make_path_relative throws std::logic_error.
ThrowsLogicError(path, workingDirectory) ==
    /\ ~ReturnsPathUnchanged(path, workingDirectory)
    /\ CharAt(workingDirectory, 0) # "/"

\* The first while loop of make_path_relative, from position i on: either
\* it returns a value, or it ends with i and lastMatchingSegmentEnd.
RECURSIVE match_loop(_, _, _, _)
match_loop(path, workingDirectory, i, lastMatchingSegmentEnd) ==
    IF i < Len(path) /\ CharAt(path, i) = CharAt(workingDirectory, i)
    THEN IF CharAt(workingDirectory, i + 1) = NUL
         THEN IF Len(path) = i + 1
              THEN [returns |-> TRUE,
                    value |-> IF CharAt(path, i) = "/" THEN <<".", "/">> ELSE <<".">>]
              ELSE IF Len(path) = i + 2 /\ CharAt(path, i + 1) = "/"
              THEN [returns |-> TRUE, value |-> <<".", "/">>]
              ELSE IF CharAt(path, i) = "/"
              THEN [returns |-> TRUE, value |-> substr_from(path, i + 1)]
              ELSE IF CharAt(path, i + 1) = "/"
              THEN [returns |-> TRUE, value |-> substr_from(path, i + 2)]
              ELSE match_loop(path, workingDirectory, i + 1, lastMatchingSegmentEnd)
         ELSE IF CharAt(path, i) = "/"
         THEN match_loop(path, workingDirectory, i + 1, i)
         ELSE match_loop(path, workingDirectory, i + 1, lastMatchingSegmentEnd)
    ELSE [returns |-> FALSE, i |-> i, lastMatchingSegmentEnd |-> lastMatchingSegmentEnd]

\* The second loop counting the '/' of the whole working directory.
dotdots_needed_from_start(workingDirectory, i) ==
    1 + Cardinality({k \in 0..(Len(workingDirectory) - 1) :
                        /\ CharAt(workingDirectory, k) = "/"
                        /\ CharAt(workingDirectory, k + 1) # NUL})

\* The second while loop: one "..", and one more for every '/' of the
\* working directory from position i on that is not its last character.
dotdots_needed(workingDirectory, i) ==
    1 + Cardinality({k \in i..(Len(workingDirectory) - 1) :
                        /\ CharAt(workingDirectory, k) = "/"
                        /\ CharAt(workingDirectory, k + 1) # NUL})

\* dotdotsNeeded * 3 - 1 dots with every third character set to '/'.
dotdots(dotdotsNeeded) ==
    [k \in 1..(dotdotsNeeded * 3 - 1) |-> IF k % 3 = 0 THEN "/" ELSE "."]

\* FileUtils::make_path_relative, where it does not throw.
make_path_relative(path, workingDirectory) ==
    IF ReturnsPathUnchanged(path, workingDirectory) THEN path
    ELSE LET m == match_loop(path, workingDirectory, 0, 0)
         IN  IF m.returns THEN m.value
             ELSE LET isPrefix == m.i = Len(path) /\ CharAt(workingDirectory, m.i) = "/"
                  IN  IF isPrefix /\ CharAt(workingDirectory, m.i + 1) = NUL
                      THEN <<".">>
                      ELSE LET i == IF isPrefix THEN m.i + 1 ELSE m.i
                               lastMatchingSegmentEnd ==
                                   IF isPrefix THEN m.i ELSE m.lastMatchingSegmentEnd
                               dotdotsNeeded == dotdots_needed(workingDirectory, i)
                           IN  dotdots(dotdotsNeeded)
                                   \o substr_from(path, lastMatchingSegmentEnd)

\* make_path_absolute dropping the trailing '/' of the path.
make_path_absolute_slash_dropped(path, cwd) ==
    IF path = <<>> \/ CharAt(path, 0) = "/" THEN path
    ELSE normalize_path(cwd \o <<"/">> \o path)

\* FileUtils::make_path_absolute
make_path_absolute(path, cwd) ==
    IF path = <<>> \/ CharAt(path, 0) = "/" THEN path
    ELSE LET fullPath == cwd \o <<"/">> \o path
             normalizedPath == normalize_path(fullPath)
         IN  IF back(path) = "/" /\ back(normalizedPath) # "/"
             THEN Append(normalizedPath, "/")
             ELSE normalizedPath

(***************************************************************************)
(* Calls of the FileUtils functions on paths drawn from bounded sets       *)
(***************************************************************************)
\* Longest path handed to a function of one path.
MaxPathLen == 6

\* Longest first path handed to a function of two paths.
MaxPairPathLen == 4

\* Longest second path (working directory or prefix).
MaxOtherLen == 4

\* Largest number of segments asked of last_n_segments.
MaxSegments == 3

\* The characters the enumerated paths are made of.
PathChars == {"/", ".", "a"}

PathsUpTo(n) == UNION {[1..k -> PathChars] : k \in 0..n}

\* Values of RECC_PROJECT_ROOT for the enumerated paths.
ProjectRoots == {<<"/">>, <<"/", "a">>}

\* Calls with longer paths: project root, path, working directory or prefix.
ExampleCalls ==
    {[root |-> <<"/">>,
      path |-> <<"/", "a", "/", ".", "/", "b", "/", ".", ".", "/", "c", "/", "/", "d", "/">>,
      other |-> <<>>],
     [root |-> <<"/">>,
      path |-> <<"a", "/", ".", ".", "/", ".", ".", "/", "b">>,
      other |-> <<>>],
     [root |-> <<"/">>,
      path |-> <<"/", "f", "o", "o">>,
      other |-> <<"/", "f", "o", "o", "b", "a", "r">>],
     [root |-> <<"/">>,
      path |-> <<"/", "f", "o", "o", "b", "a", "r">>,
      other |-> <<"/", "f", "o", "o">>],
     [root |-> <<"/">>,
      path |-> <<"/", "f", "o", "o", "/", "b", "a", "r">>,
      other |-> <<"/", "f", "o", "o">>],
     [root |-> <<"/">>,
      path |-> <<"/", "f", "o", "o">>,
      other |-> <<"/", "f", "o", "o">>],
     [root |-> <<"/", "p", "r", "o", "j">>,
      path |-> <<"/", "p", "r", "o", "j", "/", "s", "r", "c", "/", "x", ".", "c">>,
      other |-> <<"/", "p", "r", "o", "j", "/", "s", "r", "c">>],
     [root |-> <<"/", "p", "r", "o", "j">>,
      path |-> <<"/", "p", "r", "o", "j", "/", "x", ".", "c">>,
      other |-> <<"/", "p", "r", "o", "j", "/", "s", "r", "c">>],
     [root |-> <<"/", "p", "r", "o", "j">>,
      path |-> <<"/", "p", "r", "o", "j", "/", "x", ".", "c">>,
      other |-> <<"/", "p", "r", "o", "j", "/", "s", "r", "c", "/", "l", "i", "b">>],
     [root |-> <<"/", "p", "r", "o", "j">>,
      path |-> <<"/", "u", "s", "r", "/", "x", ".", "h">>,
      other |-> <<"/", "p", "r", "o", "j", "/", "s", "r", "c">>],
     [root |-> <<"/", "p", "r", "o", "j">>,
      path |-> <<"s", "u", "b", "/", ".", ".", "/", "x", ".", "c">>,
      other |-> <<"/", "p", "r", "o", "j", "/", "s", "r", "c">>],
     [root |-> <<"/", "p", "r", "o", "j">>,
      path |-> <<"s", "u", "b", "/", "x", ".", "c">>,
      other |-> <<"/", "p", "r", "o", "j", "/", "s", "r", "c">>]}

InitPath ==
    /\ mode = "path"
    /\ RECC_RETRY_LIMIT = 0
    /\ RECC_RETRY_DELAY = 100
    /\ d_authSession = FALSE
    /\ executeRequest = NoRequest
    /\ cacheCall = NoCacheCall
    /\ InitLocals
    /\ InitNoFiles
    /\ InitNoConfig
    /\ called = "none"
    /\ returned = <<>>
    /\ \/ /\ RECC_PROJECT_ROOT = <<"/">>
          /\ arg_path \in PathsUpTo(MaxPathLen)
          /\ arg_other = <<>>
          /\ arg_n \in 0..MaxSegments
       \/ /\ RECC_PROJECT_ROOT \in ProjectRoots
          /\ arg_path \in PathsUpTo(MaxPairPathLen)
          /\ arg_other \in PathsUpTo(MaxOtherLen) \cup {nullptr}
          /\ arg_n = 0
       \/ \E c \in ExampleCalls :
            /\ RECC_PROJECT_ROOT = c.root
            /\ arg_path = c.path
            /\ arg_other = c.other
            /\ arg_n \in 0..MaxSegments

\* What a call leaves alone.
PathCallFrame ==
    UNCHANGED <<configVars, executeCalls, cacheCall, RECC_PROJECT_ROOT, arg_path,
                arg_other, arg_n, tokenRefreshes, retryVars, contexts, context,
                streamVars, fstatus, s_sigint_received, sigintAt, cancelVars,
                actionResult>>

\* normalize_path(arg_path)
CallNormalizePath ==
    /\ pc = "invoke"
    /\ mode = "path"
    /\ called' = "normalize_path"
    /\ returned' = normalize_path(arg_path)
    /\ pc' = "done"
    /\ UNCHANGED errorMessage
    /\ PathCallFrame

\* has_path_prefix(arg_path, arg_other)
CallHasPathPrefix ==
    /\ pc = "invoke"
    /\ mode = "path"
    /\ arg_other # nullptr
    /\ called' = "has_path_prefix"
    /\ returned' = has_path_prefix(arg_path, arg_other)
    /\ pc' = "done"
    /\ UNCHANGED errorMessage
    /\ PathCallFrame

\* make_path_relative(arg_path, arg_other)
CallMakePathRelative ==
    /\ pc = "invoke"
    /\ mode = "path"
    /\ called' = "make_path_relative"
    /\ IF ThrowsLogicError(arg_path, arg_other)
       THEN /\ errorMessage' = "Working directory must be null or an absolute path"
            /\ pc' = "thrown"
            /\ UNCHANGED returned
       ELSE /\ returned' = make_path_relative(arg_path, arg_other)
            /\ pc' = "done"
            /\ UNCHANGED errorMessage
    /\ PathCallFrame

\* make_path_relative(make_path_absolute(arg_path, arg_other), arg_other)
\* for an absolute working directory.
CallRoundTrip ==
    /\ pc = "invoke"
    /\ mode = "path"
    /\ CharAt(arg_other, 0) = "/"
    /\ called' = "round_trip"
    /\ returned' = make_path_relative(make_path_absolute(arg_path, arg_other), arg_other)
    /\ pc' = "done"
    /\ UNCHANGED errorMessage
    /\ PathCallFrame

\* The while loop of last_n_segments, with substringStart as a position in
\* path: either it returns a value, or it ends with slashesSeen.
RECURSIVE segments_loop(_, _, _, _, _)
segments_loop(path, n, substringStart, substringLength, slashesSeen) ==
    IF substringStart # 0
    THEN IF CharAt(path, substringStart - 1) = "/"
         THEN IF slashesSeen + 1 = n
              THEN [returns |-> TRUE,
                    value |-> SubSeq(path, substringStart + 1,
                                     substringStart + substringLength)]
              ELSE segments_loop(path, n, substringStart - 1, substringLength + 1,
                                 slashesSeen + 1)
         ELSE segments_loop(path, n, substringStart - 1, substringLength + 1,
                            slashesSeen)
    ELSE [returns |-> FALSE, slashesSeen |-> slashesSeen]

\* The state of last_n_segments after its loop, for a path that is not empty.
segments_scan(path, n) ==
    segments_loop(path, n, Len(path) - 1,
                  IF CharAt(path, Len(path) - 1) = "/" THEN 0 ELSE 1, 0)

\* last_n_segments throws std::logic_error("Not enough segments in path").
NotEnoughSegments(path, n) ==
    /\ n # 0
    /\ ~segments_scan(path, n).returns
    /\ ~(segments_scan(path, n).slashesSeen = 0 /\ n = 1)

\* FileUtils::last_n_segments, where it does not throw.
last_n_segments(path, n) ==
    IF n = 0 THEN <<>>
    ELSE IF segments_scan(path, n).returns THEN segments_scan(path, n).value
    ELSE path

\* last_n_segments(arg_path, arg_n).  With n # 0 the function reads
\* path[strlen(path) - 1], so the call is made for a path that is not empty.
CallLastNSegments ==
    /\ pc = "invoke"
    /\ mode = "path"
    /\ arg_n = 0 \/ arg_path # <<>>
    /\ called' = "last_n_segments"
    /\ IF NotEnoughSegments(arg_path, arg_n)
       THEN /\ errorMessage' = "Not enough segments in path"
            /\ pc' = "thrown"
            /\ UNCHANGED returned
       ELSE /\ returned' = last_n_segments(arg_path, arg_n)
            /\ pc' = "done"
            /\ UNCHANGED errorMessage
    /\ PathCallFrame

NextPath ==
    \/ CallNormalizePath
    \/ CallHasPathPrefix
    \/ CallMakePathRelative
    \/ CallRoundTrip
    \/ CallLastNSegments

SpecPath == InitPath /\ [][NextPath]_vars

(***************************************************************************)
(* Properties of the FileUtils functions (checked under SpecPath)          *)
(***************************************************************************)
\* C16: normalize_path is idempotent: normalising what it returned returns
\* the same path.
C16_NormalizeIdempotent ==
    called = "normalize_path" => normalize_path(returned) = returned

\* normalize_path was applied to "a/./.." and cancelled its segments.
C16_Witness ==
    /\ called = "normalize_path"
    /\ arg_path = <<"a", "/", ".", "/", ".", ".">>
    /\ returned = <<>>

\* The segments of a path: the pieces between its '/' characters.
RECURSIVE Split(_)
Split(s) ==
    IF strchr(s, "/") = 0 THEN <<s>>
    ELSE <<SubSeq(s, 1, strchr(s, "/") - 1)>> \o Split(substr_from(s, strchr(s, "/")))

IsAbsolute(s) == s # <<>> /\ s[1] = "/"

\* The segments of a normalised path: those after the leading '/' of an
\* absolute one, none for "" and "/".
SegmentsOf(s) ==
    LET body == IF IsAbsolute(s) THEN Tail(s) ELSE s
    IN  IF body = <<>> THEN <<>> ELSE Split(body)

\* C17: what normalize_path returns starts with '/' exactly if the path
\* does; it has no empty segment and no "." segment; it ends in '/' only if
\* it is "/"; a ".." segment is preceded by ".." segments only; and
\* "/a/./b/../c//d/" gives "/a/c/d", "a/../../b" gives "../b".
C17_NormalizedShape ==
    called = "normalize_path" =>
        LET segments == SegmentsOf(returned)
        IN  /\ IsAbsolute(returned) <=> IsAbsolute(arg_path)
            /\ \A i \in 1..Len(segments) :
                /\ segments[i] # <<>>
                /\ segments[i] # Dot
                /\ segments[i] = DotDot => \A j \in 1..(i - 1) : segments[j] = DotDot
            /\ (returned # <<>> /\ back(returned) = "/") => returned = <<"/">>
            /\ arg_path = <<"/", "a", "/", ".", "/", "b", "/", ".", ".", "/", "c", "/", "/", "d", "/">>
                => returned = <<"/", "a", "/", "c", "/", "d">>
            /\ arg_path = <<"a", "/", ".", ".", "/", ".", ".", "/", "b">>
                => returned = <<".", ".", "/", "b">>

\* normalize_path was applied to "/a/./b/../c//d/" and returned "/a/c/d".
C17_Witness ==
    /\ called = "normalize_path"
    /\ arg_path = <<"/", "a", "/", ".", "/", "b", "/", ".", ".", "/", "c", "/", "/", "d", "/">>
    /\ returned = <<"/", "a", "/", "c", "/", "d">>

\* A relative path that does not leave the directory it is relative to.
InsideCwd(p) ==
    /\ ~IsAbsolute(p)
    /\ LET segments == SegmentsOf(normalize_path(p))
       IN  segments = <<>> \/ segments[1] # DotDot

\* The round trip was made for a relative path inside cwd, with cwd absolute
\* and under the project root.
RoundTripInsideCwd ==
    /\ called = "round_trip"
    /\ InsideCwd(arg_path)
    /\ IsAbsolute(arg_other)
    /\ has_path_prefix(arg_other, RECC_PROJECT_ROOT)

\* C18 as stated: for every relative path p inside cwd, with cwd absolute
\* and under the project root, make_path_relative(make_path_absolute(p, cwd),
\* cwd) is normalize_path(p).
C18_Original ==
    RoundTripInsideCwd => returned = normalize_path(arg_path)

\* C18, amended: for a normalised cwd the round trip gives normalize_path(p)
\* when that is not empty and p does not end in '/'; it keeps the trailing
\* '/' of a p that ends in one; for a p that is not empty but normalises to
\* the empty path it gives ".", or "./" if p ends in '/' or cwd is "/"; and
\* it gives "" for the empty p.
C18_RoundTrip ==
    (RoundTripInsideCwd /\ arg_other = normalize_path(arg_other)) =>
        returned =
            IF arg_path = <<>> THEN <<>>
            ELSE IF normalize_path(arg_path) = <<>>
            THEN IF back(arg_path) = "/" \/ arg_other = <<"/">>
                 THEN <<".", "/">>
                 ELSE <<".">>
            ELSE IF back(arg_path) = "/"
            THEN Append(normalize_path(arg_path), "/")
            ELSE normalize_path(arg_path)

\* The round trip of "sub/../x.c" in "/proj/src" gave "x.c".
C18_Witness ==
    /\ called = "round_trip"
    /\ RECC_PROJECT_ROOT = <<"/", "p", "r", "o", "j">>
    /\ arg_other = <<"/", "p", "r", "o", "j", "/", "s", "r", "c">>
    /\ arg_path = <<"s", "u", "b", "/", ".", ".", "/", "x", ".", "c">>
    /\ returned = <<"x", ".", "c">>

\* The sequence a is a leading part of the sequence b.
IsSeqPrefix(a, b) == Len(a) <= Len(b) /\ SubSeq(b, 1, Len(a)) = a

\* The prefix without its trailing '/', if it has one.
WithoutTrailingSlash(prefix) ==
    IF prefix # <<>> /\ back(prefix) = "/" THEN pop_back(prefix) ELSE prefix

\* The prefix is not empty and its segments, taken with or without its
\* trailing '/', are the leading whole segments of the path.
SegmentAlignedPrefix(path, prefix) ==
    /\ prefix # <<>>
    /\ IsSeqPrefix(Split(WithoutTrailingSlash(prefix)), Split(path))

FOO == <<"/", "f", "o", "o">>

FOOBAR == <<"/", "f", "o", "o", "b", "a", "r">>

FOO_BAR == <<"/", "f", "o", "o", "/", "b", "a", "r">>

\* The examples of C19 evaluate as the claim says.
PrefixExamples ==
    /\ arg_other = <<>> => returned = FALSE
    /\ arg_path = arg_other /\ arg_other # <<>> => returned = TRUE
    /\ (arg_path = FOO /\ arg_other = FOOBAR) => returned = FALSE
    /\ (arg_path = FOOBAR /\ arg_other = FOO) => returned = FALSE
    /\ (arg_path = FOO_BAR /\ arg_other = FOO) => returned = TRUE

\* C19 as stated: has_path_prefix(path, prefix) is true exactly when prefix
\* is not empty and is a segment-aligned prefix of path, with or without a
\* trailing '/' on prefix.
C19_Original ==
    called = "has_path_prefix" =>
        /\ returned <=> SegmentAlignedPrefix(arg_path, arg_other)
        /\ PrefixExamples

\* C19, amended: has_path_prefix(path, prefix) is true exactly when prefix is
\* not empty and is a segment-aligned prefix of path, except that a prefix
\* ending in '/' is no prefix of the path that is that prefix without the
\* '/': it is false for every path when prefix is "", false for
\* ("/foo", "/foobar") and ("/foobar", "/foo"), true for ("/foo/bar", "/foo")
\* and whenever path = prefix is not empty.
C19_SegmentAlignedPrefix ==
    called = "has_path_prefix" =>
        /\ returned <=>
               /\ SegmentAlignedPrefix(arg_path, arg_other)
               /\ ~(back(arg_other) = "/" /\ arg_path = pop_back(arg_other))
        /\ PrefixExamples

\* has_path_prefix("/a", "/a/") returned false.
C19_Witness ==
    /\ called = "has_path_prefix"
    /\ arg_path = <<"/", "a">>
    /\ arg_other = <<"/", "a", "/">>
    /\ returned = FALSE

\* The number of ".." segments a path starts with.
LeadingDotDots(r) ==
    LET segments == Split(r)
    IN  Cardinality({i \in 1..Len(segments) : \A j \in 1..i : segments[j] = DotDot})

\* The number of leading elements two sequences share.
CommonLen(a, b) ==
    Cardinality({i \in 1..Min(Len(a), Len(b)) : SubSeq(a, 1, i) = SubSeq(b, 1, i)})

\* The fewest ".." that lead from cwd to path: one for every segment of cwd
\* below the directory the two have in common.
FewestDotDots(path, cwd) ==
    LET cwdSegments == SegmentsOf(normalize_path(cwd))
        pathSegments == SegmentsOf(normalize_path(path))
    IN  Len(cwdSegments) - CommonLen(cwdSegments, pathSegments)

\* The cases in which C20 says the path is returned as it is.
RelativeNotApplicable ==
    \/ arg_other = nullptr
    \/ arg_other = <<>>
    \/ arg_path = <<>>
    \/ ~IsAbsolute(arg_path)
    \/ ~has_path_prefix(arg_path, RECC_PROJECT_ROOT)

\* What was returned is a relative path that leads from the working
\* directory to the path, with the fewest leading "..".
ShortestRelative ==
    /\ ~IsAbsolute(returned)
    /\ normalize_path(arg_other \o <<"/">> \o returned) = normalize_path(arg_path)
    /\ LeadingDotDots(returned) = FewestDotDots(arg_path, arg_other)

\* A normalised path without ".." segments.
IsCanonical(s) ==
    /\ s = normalize_path(s)
    /\ \A i \in 1..Len(SegmentsOf(s)) : SegmentsOf(s)[i] # DotDot

PROJ == <<"/", "p", "r", "o", "j">>

PROJ_SRC == <<"/", "p", "r", "o", "j", "/", "s", "r", "c">>

PROJ_SRC_X_C == <<"/", "p", "r", "o", "j", "/", "s", "r", "c", "/", "x", ".", "c">>

PROJ_X_C == <<"/", "p", "r", "o", "j", "/", "x", ".", "c">>

\* The examples of C20 evaluate as the claim says.
RelativeExamples ==
    /\ (RECC_PROJECT_ROOT = PROJ /\ arg_path = PROJ_SRC_X_C /\ arg_other = PROJ_SRC)
        => returned = <<"x", ".", "c">>
    /\ (RECC_PROJECT_ROOT = PROJ /\ arg_path = PROJ_X_C /\ arg_other = PROJ_SRC)
        => returned = <<".", ".", "/", "x", ".", "c">>

TrailingSegments(p) ==
    LET pieces == Split(WithoutTrailingSlash(p))
    IN  IF IsAbsolute(p) THEN Tail(pieces) ELSE pieces

\* The last n of the segments, joined by '/'.
LastSegments(p, n) ==
    LET segments == TrailingSegments(p)
    IN  pop_back(join_segments(SubSeq(segments, Len(segments) - n + 1, Len(segments))))

\* C21: for a path that is not empty (and not just "/") and n >= 1,
\* last_n_segments(p, n) returns the last n segments of p whenever p has at
\* least n segments, absolute or relative, and throws only when p has fewer;
\* last_n_segments(p, 0) is the empty string.
C21_LastNSegments ==
    (called = "last_n_segments" /\ WithoutTrailingSlash(arg_path) # <<>>) =>
        IF arg_n = 0 THEN pc = "done" /\ returned = <<>>
        ELSE IF Len(TrailingSegments(arg_path)) >= arg_n
        THEN pc = "done" /\ returned = LastSegments(arg_path, arg_n)
        ELSE pc = "thrown"

(***************************************************************************)
(* Configuration: parse_config_variables (env.h) parses the config files,  *)
(* then the environment, then handles the special defaults.  A config      *)
(* source is a sequence of NAME=value entries.                             *)
(***************************************************************************)
MaxConfigFiles == 2

DEFAULT_RECC_SERVER == "localhost:8085"

\* An unset NAME in a source: no entry at all.
Absent == "(absent)"

Entry(name, value) ==
    IF value = Absent THEN <<>> ELSE <<[name |-> name, value |-> value]>>

\* The sources that give each of RECC_SERVER and RECC_CAS_SERVER no entry, an
\* entry with an empty value, or an entry with the source's own value.
ConfigSources(server, cas) ==
    {<<[name |-> "PATH", value |-> "/usr/bin"]>>
        \o Entry("RECC_SERVER", s) \o Entry("RECC_CAS_SERVER", c) :
        s \in {Absent, "", server}, c \in {Absent, "", cas}}

ConfigFileContents(k) ==
    ConfigSources("file" \o to_string(k) \o ":50051", "localhost:6666" \o to_string(k))

Environs == ConfigSources("somehost:1234", "cashost:1234")

InitConfig ==
    /\ mode = "config"
    /\ RECC_RETRY_LIMIT = 0
    /\ RECC_RETRY_DELAY = 100
    /\ d_authSession = FALSE
    /\ executeRequest = NoRequest
    /\ cacheCall = NoCacheCall
    /\ InitLocals
    /\ InitNoFiles
    /\ InitNoPath
    /\ RECC_SERVER = ""
    /\ RECC_CAS_SERVER = ""
    /\ \E count \in 0..MaxConfigFiles :
          configFiles \in [1..count -> UNION {ConfigFileContents(k) : k \in 1..count}]
          /\ \A k \in 1..count : configFiles[k] \in ConfigFileContents(k)
    /\ environ \in Environs
    /\ filesParsed = 0

\* VARS_START / STRVAR: an entry whose name is RECC_SERVER or RECC_CAS_SERVER
\* assigns its value to that global; any other entry is skipped.
RECURSIVE parse_environment(_, _)
parse_environment(globals, entries) ==
    IF entries = <<>>
    THEN globals
    ELSE LET entry == Head(entries)
             next == IF entry.name = "RECC_SERVER"
                     THEN [globals EXCEPT !.RECC_SERVER = entry.value]
                     ELSE IF entry.name = "RECC_CAS_SERVER"
                     THEN [globals EXCEPT !.RECC_CAS_SERVER = entry.value]
                     ELSE globals
         IN parse_environment(next, Tail(entries))

\* Each file at RECC_CONFIG_LOCATIONS, least important first, has its
\* variables passed to the same parser.
RECURSIVE parse_config_files(_, _)
parse_config_files(globals, files) ==
    IF files = <<>>
    THEN globals
    ELSE parse_config_files(parse_environment(globals, Head(files)), Tail(files))

ConfigGlobals == [RECC_SERVER |-> RECC_SERVER, RECC_CAS_SERVER |-> RECC_CAS_SERVER]

ConfigFrame ==
    UNCHANGED <<mode, RECC_RETRY_LIMIT, RECC_RETRY_DELAY, d_authSession,
                executeRequest, configFiles, environ, fileVars, executeCalls, cacheCall,
                pathVars, tokenRefreshes, retryVars, contexts, context,
                streamVars, fstatus, s_sigint_received, sigintAt, cancelVars,
                errorMessage, actionResult>>

\* find_and_parse_config_files()
FindAndParseConfigFiles ==
    /\ mode = "config"
    /\ pc = "invoke"
    /\ LET globals == parse_config_files(ConfigGlobals, configFiles)
       IN /\ RECC_SERVER' = globals.RECC_SERVER
          /\ RECC_CAS_SERVER' = globals.RECC_CAS_SERVER
    /\ filesParsed' = Len(configFiles)
    /\ pc' = "environ"
    /\ ConfigFrame

\* parse_config_variables(environ)
ParseConfigVariables ==
    /\ mode = "config"
    /\ pc = "environ"
    /\ LET globals == parse_environment(ConfigGlobals, environ)
       IN /\ RECC_SERVER' = globals.RECC_SERVER
          /\ RECC_CAS_SERVER' = globals.RECC_CAS_SERVER
    /\ pc' = "defaults"
    /\ UNCHANGED filesParsed
    /\ ConfigFrame

\* The special defaults with RECC_CAS_SERVER set to RECC_SERVER whether or not
\* it is empty.
HandleSpecialDefaults_cas_follows_server ==
    /\ mode = "config"
    /\ pc = "defaults"
    /\ RECC_SERVER' = IF RECC_SERVER = "" THEN DEFAULT_RECC_SERVER ELSE RECC_SERVER
    /\ RECC_CAS_SERVER' = RECC_SERVER'
    /\ pc' = "done"
    /\ UNCHANGED filesParsed
    /\ ConfigFrame

\* handle_special_defaults(): an empty RECC_SERVER becomes the default server,
\* then an empty RECC_CAS_SERVER becomes RECC_SERVER.
HandleSpecialDefaults ==
    /\ mode = "config"
    /\ pc = "defaults"
    /\ RECC_SERVER' = IF RECC_SERVER = "" THEN DEFAULT_RECC_SERVER ELSE RECC_SERVER
    /\ RECC_CAS_SERVER' = IF RECC_CAS_SERVER = "" THEN RECC_SERVER' ELSE RECC_CAS_SERVER
    /\ pc' = "done"
    /\ UNCHANGED filesParsed
    /\ ConfigFrame

NextConfig ==
    \/ FindAndParseConfigFiles
    \/ ParseConfigVariables
    \/ HandleSpecialDefaults

SpecConfig == InitConfig /\ [][NextConfig]_vars

\* The value the last entry for name gives in a source, Absent if none does.
Given(entries, name) ==
    LET at == {i \in 1..Len(entries) : entries[i].name = name}
    IN IF at = {} THEN Absent
       ELSE entries[CHOOSE i \in at : \A j \in at : j <= i].value

RECURSIVE Flatten(_)
Flatten(files) == IF files = <<>> THEN <<>> ELSE Head(files) \o Flatten(Tail(files))

ConfiguredValue(name) ==
    IF name = "RECC_SERVER" THEN RECC_SERVER ELSE RECC_CAS_SERVER

MaxTempFiles == 2

TmpDirs == {"/tmp", "/var/tmp"}

TmpPrefixes == {"recc", "casupload"}

\* What mkdtemp may put in place of XXXXXX.
MkdtempSuffixes == {"Ab12Cd", "Zy98Xw"}

\* How execute() can end: the command ran and exited with status 0, it ran
\* and exited with another status, or it could not be spawned and execute
\* threw.
ExecuteOutcomes == {"exit 0", "exit 1", "throws"}

TempFile(k) == d_name \o "/file" \o to_string(k)

TempFiles == {TempFile(k) : k \in 1..MaxTempFiles}

InitTmpDir ==
    /\ mode = "tmpdir"
    /\ RECC_RETRY_LIMIT = 0
    /\ RECC_RETRY_DELAY = 100
    /\ d_authSession = FALSE
    /\ executeRequest = NoRequest
    /\ cacheCall = NoCacheCall
    /\ InitLocals
    /\ InitNoPath
    /\ InitNoConfig
    /\ TMPDIR \in TmpDirs
    /\ d_name = ""
    /\ log = <<>>
    /\ disk = [dirs |-> {TMPDIR}, files |-> <<>>]
    /\ diskBefore = NoDisk
    /\ d_outputFiles = <<>>
    /\ root = <<>>
    /\ fileIter = 0
    /\ blob = ""
    /\ fileOps = <<>>

TmpDirFrame ==
    UNCHANGED <<mode, RECC_RETRY_LIMIT, RECC_RETRY_DELAY, d_authSession,
                executeRequest, envVars, TMPDIR, diskBefore, d_outputFiles, root, fileIter,
                blob, fileOps, executeCalls, cacheCall, pathVars,
                tokenRefreshes, retryVars, contexts, context, streamVars,
                fstatus, s_sigint_received, sigintAt, cancelVars, actionResult>>

\* TemporaryDirectory(prefix): mkdtemp makes the directory and fills in the
\* name, or fails and the constructor throws.
TemporaryDirectoryConstruct ==
    /\ mode = "tmpdir"
    /\ pc = "invoke"
    /\ \E prefix \in TmpPrefixes :
          \/ \E suffix \in MkdtempSuffixes :
                /\ d_name' = TMPDIR \o "/" \o prefix \o suffix
                /\ disk' = [disk EXCEPT !.dirs = @ \cup {d_name'}]
                /\ pc' = "scope"
                /\ UNCHANGED errorMessage
          \/ /\ d_name' = TMPDIR \o "/" \o prefix \o "XXXXXX"
             /\ errorMessage' = "std::system_error"
             /\ pc' = "thrown"
             /\ UNCHANGED disk
    /\ UNCHANGED log
    /\ TmpDirFrame

\* The owning scope puts a file into the directory.
TemporaryDirectoryUse ==
    /\ mode = "tmpdir"
    /\ pc = "scope"
    /\ \E k \in 1..MaxTempFiles :
          /\ TempFile(k) \notin DOMAIN disk.files
          /\ \A j \in 1..(k - 1) : TempFile(j) \in DOMAIN disk.files
          /\ disk' = [disk EXCEPT !.files =
                         [f \in DOMAIN @ \cup {TempFile(k)} |->
                             IF f = TempFile(k) THEN "contents" ELSE @[f]]]
    /\ UNCHANGED <<pc, d_name, log, errorMessage>>
    /\ TmpDirFrame

\* The scope ends, by reaching its end or by an exception passing through
\* it; either way the destructor runs next.
TemporaryDirectoryLeaveScope ==
    /\ mode = "tmpdir"
    /\ pc = "scope"
    /\ \/ pc' = "destroy" /\ UNCHANGED errorMessage
       \/ pc' = "unwinding" /\ errorMessage' = "std::runtime_error"
    /\ UNCHANGED <<d_name, log, disk>>
    /\ TmpDirFrame

\* ~TemporaryDirectory(): execute({"rm", "-rf", d_name}) with its result
\* discarded and no try block around it.  An exception that leaves the
\* destructor, which is noexcept, ends the process in std::terminate.
TemporaryDirectoryDestroy ==
    /\ mode = "tmpdir"
    /\ pc \in {"destroy", "unwinding"}
    /\ \E outcome \in ExecuteOutcomes :
          /\ disk' = IF outcome = "exit 0"
                     THEN [dirs |-> disk.dirs \ {d_name},
                           files |-> [f \in DOMAIN disk.files \ TempFiles |-> disk.files[f]]]
                     ELSE disk
          /\ pc' = IF outcome = "throws" THEN "terminated"
                   ELSE IF pc = "destroy" THEN "done" ELSE "thrown"
          /\ errorMessage' = IF outcome = "throws" THEN "std::system_error" ELSE errorMessage
    /\ UNCHANGED <<d_name, log>>
    /\ TmpDirFrame

NextTmpDir ==
    \/ TemporaryDirectoryConstruct
    \/ TemporaryDirectoryUse
    \/ TemporaryDirectoryLeaveScope
    \/ TemporaryDirectoryDestroy

SpecTmpDir == InitTmpDir /\ [][NextTmpDir]_vars

\* The destructor of a constructed TemporaryDirectory has run.
Destroyed ==
    /\ mode = "tmpdir"
    /\ \/ pc \in {"done", "terminated"}
       \/ pc = "thrown" /\ errorMessage = "std::runtime_error"

\* C23: destroying a TemporaryDirectory never raises, on the normal and on
\* the error exit path: no error leaves the destructor, and if the directory
\* could not be removed the failure has been logged.
C23_DestructorNeverRaises ==
    Destroyed =>
        /\ pc # "terminated"
        /\ d_name \in disk.dirs => log # <<>>

(***************************************************************************)
(* write_files_to_disk: for each entry of d_outputFiles, in the map's      *)
(* order, fetch the blob, write it to root/path and, if the entry says so, *)
(* make the file executable.  A path is a sequence of characters; the file *)
(* system holds no symbolic links and the paths of output files have no    *)
(* ".." segment, so a path names what its normal form names.               *)
(***************************************************************************)
MaxOutputFiles == 2

\* The permission bits of a file just created (0666 under umask 022) and
\* S_IXUSR | S_IXGRP | S_IXOTH.
NewFileMode == {"r_usr", "w_usr", "r_grp", "r_oth"}

ExecuteBits == {"x_usr", "x_grp", "x_oth"}

\* The paths output files may have, in the order of std::map's keys.
OutputPaths ==
    <<(<<"a">>), <<"d", "/", "a">>, <<"d", "/", "e", "/", "b">>>>

Digests == {"digest-1", "digest-2"}

\* CAS returns the blob a digest names.
fetch_blob(digest) == "blob of " \o digest

RECURSIVE output_files_from(_, _, _, _)
output_files_from(i, chosen, digestOf, executableOf) ==
    IF i > Len(OutputPaths) THEN <<>>
    ELSE (IF i \in chosen
          THEN <<[first |-> OutputPaths[i],
                  second |-> [first |-> digestOf[i], second |-> executableOf[i]]]>>
          ELSE <<>>)
         \o output_files_from(i + 1, chosen, digestOf, executableOf)

\* Every d_outputFiles with at most MaxOutputFiles entries.
OutputFileMaps ==
    {output_files_from(1, chosen, digestOf, executableOf) :
        chosen \in {c \in SUBSET (1..Len(OutputPaths)) : Cardinality(c) <= MaxOutputFiles},
        digestOf \in [1..Len(OutputPaths) -> Digests],
        executableOf \in [1..Len(OutputPaths) -> BOOLEAN]}

Roots == {<<"r">>, <<"r", "/">>, <<".">>}

\* What a path names.
Resolve(path) == normalize_path(path)

\* strrchr(path, c): the position of the last c, 0 for nullptr.
strrchr(path, c) ==
    IF \E i \in 1..Len(path) : path[i] = c
    THEN CHOOSE i \in 1..Len(path) :
            path[i] = c /\ \A j \in (i + 1)..Len(path) : path[j] # c
    ELSE 0

\* The directory that holds what a resolved relative path names.
Parent(p) == IF strrchr(p, "/") = 0 THEN <<>> ELSE SubSeq(p, 1, strrchr(p, "/") - 1)

UnderRoot(r, path) == Resolve(r \o <<"/">> \o path)

\* The states of the file system the call may find: the working directory
\* and the root exist, and under the root there is nothing, or the directory
\* d, or a file a (executable by its owner or not), or a file named d.
Disks(r) ==
    LET dirs == {<<>>, Resolve(r)}
        file(st_mode) == [contents |-> "stale", mode |-> st_mode]
    IN {[dirs |-> dirs, files |-> <<>>],
        [dirs |-> dirs \cup {UnderRoot(r, <<"d">>)}, files |-> <<>>],
        [dirs |-> dirs, files |-> [f \in {UnderRoot(r, <<"a">>)} |-> file(NewFileMode)]],
        [dirs |-> dirs,
         files |-> [f \in {UnderRoot(r, <<"a">>)} |-> file({"r_usr", "w_usr", "x_usr"})]],
        [dirs |-> dirs, files |-> [f \in {UnderRoot(r, <<"d">>)} |-> file(NewFileMode)]]}

InitFiles ==
    /\ mode = "files"
    /\ RECC_RETRY_LIMIT = 0
    /\ RECC_RETRY_DELAY = 100
    /\ d_authSession = FALSE
    /\ executeRequest = NoRequest
    /\ cacheCall = NoCacheCall
    /\ InitLocals
    /\ InitNoPath
    /\ InitNoConfig
    /\ TMPDIR = ""
    /\ d_name = ""
    /\ log = <<>>
    /\ root \in Roots
    /\ disk \in Disks(root)
    /\ diskBefore = disk
    /\ d_outputFiles \in OutputFileMaps
    /\ fileIter = 0
    /\ blob = ""
    /\ fileOps = <<>>

WithFile(d, p, file) ==
    [d EXCEPT !.files = [f \in DOMAIN @ \cup {p} |-> IF f = p THEN file ELSE @[f]]]

\* std::ofstream(path, trunc | binary): an existing file is emptied and keeps
\* its mode, a missing one is created if its directory exists, and anything
\* else leaves the stream failed.
open_trunc(d, path) ==
    LET at(p) ==
            IF p \in DOMAIN d.files
            THEN [ok |-> TRUE, disk |-> WithFile(d, p, [d.files[p] EXCEPT !.contents = ""])]
            ELSE IF p \notin d.dirs /\ Parent(p) \in d.dirs
            THEN [ok |-> TRUE, disk |-> WithFile(d, p, [contents |-> "", mode |-> NewFileMode])]
            ELSE [ok |-> FALSE, disk |-> d]
    IN at(Resolve(path))

\* mkdir(path, 0777)
mkdir(d, path) ==
    LET at(p) ==
            IF path = <<>> THEN [errno |-> "ENOENT", disk |-> d]
            ELSE IF p \in d.dirs \/ p \in DOMAIN d.files THEN [errno |-> "EEXIST", disk |-> d]
            ELSE IF Parent(p) \in DOMAIN d.files THEN [errno |-> "ENOTDIR", disk |-> d]
            ELSE IF Parent(p) \notin d.dirs THEN [errno |-> "ENOENT", disk |-> d]
            ELSE [errno |-> "OK", disk |-> [d EXCEPT !.dirs = @ \cup {p}]]
    IN at(Resolve(path))

RECURSIVE create_directory_recursive(_, _)
create_directory_recursive(d, path) ==
    LET retried(parent, again) ==
            IF parent.thrown THEN parent
            ELSE IF again.errno # "OK" THEN [thrown |-> TRUE, disk |-> parent.disk]
            ELSE [thrown |-> FALSE, disk |-> again.disk]
        with_parent(parent) == retried(parent, mkdir(parent.disk, path))
        after(made, lastSlash) ==
            IF made.errno = "OK" THEN [thrown |-> FALSE, disk |-> made.disk]
            ELSE IF made.errno = "EEXIST" THEN [thrown |-> FALSE, disk |-> d]
            ELSE IF made.errno = "ENOENT"
            THEN IF lastSlash = 0 THEN [thrown |-> TRUE, disk |-> d]
                 ELSE with_parent(create_directory_recursive(d, SubSeq(path, 1, lastSlash - 1)))
            ELSE [thrown |-> TRUE, disk |-> d]
    IN after(mkdir(d, path), strrchr(path, "/"))

\* fileStream << contents << std::flush on an open stream.
Written(d, path, contents) ==
    LET at(p) ==
            [thrown |-> FALSE,
             disk |-> WithFile(d, p, [d.files[p] EXCEPT !.contents = contents])]
    IN at(Resolve(path))

\* write_file without the directories: a stream that failed to open stays
\* failed.
write_file_no_directories(d, path, contents) ==
    LET opened(first) ==
            IF first.ok THEN Written(first.disk, path, contents)
            ELSE [thrown |-> TRUE, disk |-> d]
    IN opened(open_trunc(d, path))

\* write_file(path, contents)
write_file(d, path, contents) ==
    LET reopened(created, second) ==
            IF created.thrown THEN created
            ELSE IF second.ok THEN Written(second.disk, path, contents)
            ELSE [thrown |-> TRUE, disk |-> created.disk]
        with_directories(created) == reopened(created, open_trunc(created.disk, path))
        in_directory(slashPath) == with_directories(create_directory_recursive(d, slashPath))
        opened(first, slash) ==
            IF first.ok THEN Written(first.disk, path, contents)
            ELSE IF slash # 0
            THEN in_directory(normalize_path(SubSeq(path, 1, slash - 1)))
            ELSE [thrown |-> TRUE, disk |-> d]
    IN opened(open_trunc(d, path), strrchr(path, "/"))

\* make_executable(path): stat, then chmod with the three execute bits added.
make_executable(d, path) ==
    LET at(p) ==
            IF p \in DOMAIN d.files
            THEN [thrown |-> FALSE,
                  disk |-> WithFile(d, p, [d.files[p] EXCEPT !.mode = @ \cup ExecuteBits])]
            ELSE [thrown |-> TRUE, disk |-> d]
    IN at(Resolve(path))

FilesFrame ==
    UNCHANGED <<mode, RECC_RETRY_LIMIT, RECC_RETRY_DELAY, d_authSession,
                executeRequest, envVars, TMPDIR, d_name, log, diskBefore,
                d_outputFiles, root, executeCalls, cacheCall, pathVars,
                tokenRefreshes, retryVars, contexts, context, streamVars,
                fstatus, s_sigint_received, sigintAt, cancelVars, actionResult>>

\* The entry the loop is at, and the path built for it.
CurrentFile == d_outputFiles[fileIter + 1]

CurrentPath == root \o <<"/">> \o CurrentFile.first

\* fetch_blob(fileIter.second.first), evaluated before write_file is entered;
\* it returns the blob or throws.
WriteFilesFetchBlob ==
    /\ mode = "files"
    /\ pc = "invoke"
    /\ fileIter < Len(d_outputFiles)
    /\ \/ /\ blob' = fetch_blob(CurrentFile.second.first)
          /\ fileOps' = Append(fileOps, [op |-> "fetch_blob", digest |-> CurrentFile.second.first])
          /\ pc' = "write_file"
          /\ UNCHANGED errorMessage
       \/ /\ errorMessage' = "fetch_blob failed"
          /\ pc' = "thrown"
          /\ UNCHANGED <<blob, fileOps>>
    /\ UNCHANGED <<disk, fileIter>>
    /\ FilesFrame

\* write_file(path.c_str(), blob); without the exec bit the loop moves on.
WriteFilesWriteFile ==
    /\ mode = "files"
    /\ pc = "write_file"
    /\ \E result \in {write_file(disk, CurrentPath, blob)} :
          /\ disk' = result.disk
          /\ fileOps' = Append(fileOps, [op |-> "write_file", path |-> CurrentPath,
                                          thrown |-> result.thrown])
          /\ IF result.thrown
             THEN /\ errorMessage' = "std::ios_base::failure"
                  /\ pc' = "thrown"
                  /\ UNCHANGED fileIter
             ELSE /\ UNCHANGED errorMessage
                  /\ IF CurrentFile.second.second
                     THEN pc' = "make_executable" /\ UNCHANGED fileIter
                     ELSE pc' = "invoke" /\ fileIter' = fileIter + 1
    /\ UNCHANGED blob
    /\ FilesFrame

\* if (fileIter.second.second) make_executable(path.c_str())
WriteFilesMakeExecutable ==
    /\ mode = "files"
    /\ pc = "make_executable"
    /\ \E result \in {make_executable(disk, CurrentPath)} :
          /\ disk' = result.disk
          /\ fileOps' = Append(fileOps, [op |-> "make_executable", path |-> CurrentPath])
          /\ IF result.thrown
             THEN errorMessage' = "std::system_error" /\ pc' = "thrown" /\ UNCHANGED fileIter
             ELSE UNCHANGED errorMessage /\ pc' = "invoke" /\ fileIter' = fileIter + 1
    /\ UNCHANGED blob
    /\ FilesFrame

\* The loop is past the last entry: write_files_to_disk returns.
WriteFilesReturn ==
    /\ mode = "files"
    /\ pc = "invoke"
    /\ fileIter = Len(d_outputFiles)
    /\ pc' = "done"
    /\ UNCHANGED <<disk, fileIter, blob, fileOps, errorMessage>>
    /\ FilesFrame

NextFiles ==
    \/ WriteFilesFetchBlob
    \/ WriteFilesWriteFile
    \/ WriteFilesMakeExecutable
    \/ WriteFilesReturn

SpecFiles == InitFiles /\ [][NextFiles]_vars

\* The directories on the way to what a resolved path names.
Ancestors(p) == {SubSeq(p, 1, i - 1) : i \in {j \in 2..Len(p) : p[j] = "/"}}

\* The mode a file had when the call began, or would be created with.
ModeBefore(p) ==
    IF p \in DOMAIN diskBefore.files THEN diskBefore.files[p].mode ELSE NewFileMode

OutputFileWritten(entry) ==
    LET p == UnderRoot(root, entry.first)
    IN /\ p \in DOMAIN disk.files
       /\ disk.files[p].contents = "blob of " \o entry.second.first
       /\ Ancestors(p) \subseteq disk.dirs
       /\ disk.files[p].mode =
             IF entry.second.second THEN ModeBefore(p) \cup ExecuteBits ELSE ModeBefore(p)

\* C24: every output file entry (path, digest, exec bit) the loop has
\* finished holds, at root/path, the blob fetched from CAS for its digest,
\* inside directories that exist; its mode has the execute bits added when
\* the exec bit is set and is what it was (or what creation gives) when it is
\* not; and every write of a file comes right after the fetch of that file's
\* blob.  When the call returns, the loop has finished every entry, and it
\* ends early only because a blob could not be fetched or because a file
\* stands where a directory of the path has to be: a missing directory is
\* created.
C24_WriteFilesToDisk ==
    mode = "files" =>
        /\ \A k \in 1..fileIter : OutputFileWritten(d_outputFiles[k])
        /\ pc = "done" => fileIter = Len(d_outputFiles)
        /\ pc = "thrown" =>
              \/ errorMessage = "fetch_blob failed"
              \/ Ancestors(Resolve(CurrentPath)) \cap DOMAIN diskBefore.files # {}
        /\ \A i \in 1..Len(fileOps) :
              fileOps[i].op = "write_file" =>
                 /\ i > 1
                 /\ fileOps[i - 1].op = "fetch_blob"
                 /\ \E k \in 1..Len(d_outputFiles) :
                       /\ fileOps[i].path = root \o <<"/">> \o d_outputFiles[k].first
                       /\ fileOps[i - 1].digest = d_outputFiles[k].second.first

\* Returned after writing an executable d/e/b where d did not exist and a
\* plain file a over one that its owner could already execute.
C24_Witness ==
    /\ mode = "files"
    /\ pc = "done"
    /\ Len(d_outputFiles) = 2
    /\ d_outputFiles[1].first = <<"a">>
    /\ ~d_outputFiles[1].second.second
    /\ UnderRoot(root, <<"a">>) \in DOMAIN diskBefore.files
    /\ "x_usr" \in diskBefore.files[UnderRoot(root, <<"a">>)].mode
    /\ d_outputFiles[2].first = <<"d", "/", "e", "/", "b">>
    /\ d_outputFiles[2].second.second
    /\ UnderRoot(root, <<"d">>) \notin diskBefore.dirs
    /\ UnderRoot(root, <<"d", "/", "e">>) \in disk.dirs
    /\ disk.files[UnderRoot(root, <<"d", "/", "e", "/", "b">>)].mode = NewFileMode \cup ExecuteBits
    /\ disk.files[UnderRoot(root, <<"a">>)] =
          [contents |-> "blob of " \o d_outputFiles[1].second.first,
           mode |-> {"r_usr", "w_usr", "x_usr"}]

(***************************************************************************)
(* Properties of one Execute attempt (checked under SpecExecute)           *)
(***************************************************************************)
\* The main thread is in the cancellation branch of read_operation.
Cancelling == pc \in {"cancel_call", "exit"}

\* C25 as stated: cancellation is entered only while no done Operation has
\* been received on the attempt, and an attempt that has received the done
\* Operation goes on only to the failure or the success of execute_action.
C25_Original ==
    [][/\ (~Cancelling /\ Cancelling') => ~operation.done
       /\ (operation.done /\ pc \in {"poll_wait", "poll_check", "finish", "check", "examine"}) =>
              pc' \in {"poll_wait", "poll_check", "finish", "check", "examine", "thrown", "done"}]_vars

\* C25 amended: cancellation is entered only from the poll of read_operation
\* that finds the SIGINT flag set, be a done Operation received or not; once
\* read_operation has returned, the attempt goes only to Finish and from
\* there, with the status Finish returned, to the end of grpc_retry (then
\* execute_action fails or succeeds on the Operation), to another attempt,
\* or to the failure of grpc_retry, and never into cancellation.
C25_CancelOnlyWhilePolling ==
    [][/\ (~Cancelling /\ Cancelling') => (pc = "poll_check" /\ s_sigint_received)
       /\ (pc = "poll_check" /\ ~s_sigint_received /\ fstatus = "ready") =>
              pc' \in {"poll_check", "finish"}
       /\ pc = "finish" => pc' \in {"finish", "check"}
       /\ pc = "check" => pc' \in {"check", "examine", "invoke", "sleep", "thrown"}
       /\ pc = "examine" => pc' \in {"examine", "thrown", "done"}]_vars

\* C25 witness: the poll found the reader finished with a done Operation,
\* then found the flag set, and CancelOperation is about to be sent.
C25_Witness ==
    /\ pc = "cancel_call"
    /\ fstatus = "ready"
    /\ operation.done
    /\ operation.name = "op-42"

\* C26: once a name has been recorded from the first Operation of the stream
\* that carried one, that name is the one cancellation uses: the poll that
\* finds the SIGINT flag set reads it, and CancelOperation is sent with it,
\* whatever Operations have been received since.
C26_RecordedNameUsed ==
    [][loggedName # "" =>
          /\ (pc = "poll_check" /\ Cancelling') => nameChecked' = loggedName
          /\ (pc = "cancel_call" /\ pc' = "exit") =>
                 cancelCalls'[Len(cancelCalls')].name = loggedName]_vars

(***************************************************************************)
(* One Execute attempt on its own, from the Execute call to the return of  *)
(* Finish, with the two threads scheduled fairly: every step a thread can  *)
(* take it eventually takes (the poll's wait_for times out, Read returns), *)
(* and the server does not send Operations that are not done for ever: it  *)
(* eventually sends a done one or closes the stream.                       *)
(***************************************************************************)
\* The server ends the stream: Read gets a done Operation or returns false.
ServerEndsStream ==
    \/ ReaderReadBegin /\ pending'.done
    \/ ReaderStreamEnd

NextAttempt ==
    \/ ExecuteInvoke
    \/ ReaderReadBegin
    \/ ReaderReadEnd
    \/ ReaderStreamEnd
    \/ Sigint
    \/ PollWait
    \/ PollSigint
    \/ PollAgain
    \/ PollReturn
    \/ StreamFinish
    \/ PollCancel
    \/ PollExit

SpecExecuteFair ==
    /\ InitExecute
    /\ [][NextAttempt]_vars
    /\ WF_vars(ExecuteInvoke)
    /\ WF_vars(ReaderReadEnd)
    /\ SF_vars(ServerEndsStream)
    /\ WF_vars(PollWait)
    /\ WF_vars(PollAgain)
    /\ WF_vars(PollReturn)
    /\ WF_vars(StreamFinish)

\* C27: the reader stops at the first done Operation and reads again after
\* any other; Finish is called only once the reader has stopped; absent
\* SIGINT, read_operation returns once the reader has stopped, so an attempt
\* whose stream the server ends terminates: Finish returns.
C27_AttemptTerminates ==
    /\ []((receivedAny /\ operation.done) => reader = "finished")
    /\ [][(reader = "writing" /\ ~pending.done) => reader' \in {"writing", "reading"}]_vars
    /\ [](pc \in {"finish", "check"} => reader = "finished")
    /\ (reader = "finished" /\ pc \in {"poll_wait", "poll_check"})
          ~> (pc = "finish" \/ s_sigint_received)
    /\ (pc = "poll_wait") ~> (pc = "check" \/ s_sigint_received)

\* C27 witness: without a SIGINT, the reader stopped at a done Operation and
\* Finish has returned.
C27_Witness ==
    /\ pc = "check"
    /\ ~s_sigint_received
    /\ reader = "finished"
    /\ operation.done
    /\ loggedName = "op-42"
    /\ Len(statusLog) = 1

\* The reader thread can no longer write the shared Operation and Finish has
\* returned the status that ended grpc_retry.
ReaderDoneAndFinished ==
    /\ reader = "finished"
    /\ retry = "returned"
    /\ statusLog # <<>>
    /\ StatusOk(Last(statusLog))

\* C28: the main thread reads the name of the shared Operation only on the
\* SIGINT path of the poll (for the test and for CancelOperation), where the
\* reader may be in the middle of a write, and it looks at the done flag,
\* the error and the response, from which it throws or returns, only when
\* the reader thread has finished and Finish has returned.
C28_OperationReads ==
    /\ [][(nameChecked' # nameChecked \/ cancelCalls' # cancelCalls) =>
              (s_sigint_received /\ pc \in {"poll_check", "cancel_call"})]_vars
    /\ [](pc = "examine" => ReaderDoneAndFinished)
    /\ [][(pc = "examine" /\ pc' # "examine") => ReaderDoneAndFinished]_vars
    /\ []((actionResult.present \/ (mode = "execute" /\ errorMessage # "" /\ retry = "returned"))
            => ReaderDoneAndFinished)

\* C28 witness: the poll read the name while Read was writing the Operation
\* and got the incoming name, not the stored one.
C28_Witness ==
    /\ pc = "cancel_call"
    /\ reader = "writing"
    /\ nameChecked = pending.name
    /\ nameChecked # operation.name

\* C29: the SIGINT flag, once set, stays set; a poll of read_operation that
\* finds it set goes only to the cancellation and the exit with code 130;
\* and after a SIGINT that arrived between two attempts (during the backoff
\* sleep or before the lambda runs) the main thread goes nowhere but through
\* a new Execute call into that poll, so the exit comes only after another
\* Execute RPC has been opened.
C29_SigintFlagSticks ==
    /\ [][s_sigint_received => s_sigint_received']_vars
    /\ [][(s_sigint_received /\ pc = "poll_check") =>
              pc' \in {"poll_check", "cancel_call", "exit"}]_vars
    /\ [][(s_sigint_received /\ pc = "cancel_call") => pc' \in {"cancel_call", "exit"}]_vars
    /\ [][(s_sigint_received /\ pc = "exit") =>
              (pc' = "exit" \/ (pc' = "exited" /\ exitCode' = 130))]_vars
    /\ [](sigintAt \in {"sleep", "invoke"} =>
            pc \in {"sleep", "invoke", "poll_wait", "poll_check", "cancel_call",
                    "exit", "exited"})
    /\ [][(sigintAt \in {"sleep", "invoke"} /\ pc \in {"sleep", "invoke"} /\ pc' = "poll_wait") =>
              Len(executeCalls') = Len(executeCalls) + 1]_vars
    /\ []((sigintAt = "sleep" /\ pc \in {"cancel_call", "exit", "exited"}) =>
            Len(executeCalls) >= 2)

\* C29 witness: SIGINT arrived during the backoff sleep after the first
\* attempt, and the process exited with 130 in the poll of the second.
C29_Witness ==
    /\ sigintAt = "sleep"
    /\ pc = "exited"
    /\ exitCode = 130
    /\ Len(executeCalls) = 2
    /\ Len(sleeps) = 1

(***************************************************************************)
(* grpc_retry and the status code (checked under SpecRetry)                *)
(***************************************************************************)
\* C30: what grpc_retry does with a status that is neither OK nor the first
\* UNAUTHENTICATED of the call does not depend on its code: short of the
\* limit it sleeps RECC_RETRY_DELAY * 2^n_attempts ms, counts one attempt and
\* invokes the RPC again; at the limit it counts the attempt and throws
\* without a sleep.
C30_RetryIgnoresCode ==
    /\ [][(/\ pc = "check"
           /\ pc' # "check"
           /\ ~StatusOk(status)
           /\ ~(status.code = NO_AUTH /\ ~refreshed)) =>
              IF n_attempts < RECC_RETRY_LIMIT
              THEN /\ pc' = "sleep"
                   /\ sleeps' = Append(sleeps, RECC_RETRY_DELAY * 2 ^ n_attempts)
                   /\ retry' = "running"
              ELSE /\ pc' = "thrown"
                   /\ retry' = "thrown"
                   /\ n_attempts' = n_attempts + 1
                   /\ sleeps' = sleeps]_vars
    /\ [][(pc = "sleep" /\ pc' # "sleep") =>
              (pc' = "invoke" /\ n_attempts' = n_attempts + 1 /\ retry' = "running")]_vars

\* C30 witness: INVALID_ARGUMENT three times with limit 2: two sleeps, three
\* attempts, then the throw.
C30_Witness ==
    /\ mode = "unary"
    /\ RECC_RETRY_LIMIT = 2
    /\ LogCodes = <<3, 3, 3>>
    /\ Len(sleeps) = 2
    /\ n_attempts = 3
    /\ retry = "thrown"
====
